---- MODULE Spec2Model ----
(***************************************************************************)
(* Ingestion engine of the scholarly-graph pipeline: the three source      *)
(* adapters (arxiv, pubmed, openalex) driving StorageManager and           *)
(* CheckpointManager, and the two managers on their own at file level.     *)
(*                                                                         *)
(*   Spec / FairSpec : one adapter's ingest() runs, with crashes and       *)
(*                     resumed runs, over the shared disk.                 *)
(*   StorageSpec     : StorageManager.write_records record by record,      *)
(*                     list_files and read_records.                        *)
(*   CkptSpec        : CheckpointManager save/get/clear chunk by chunk.    *)
(***************************************************************************)
EXTENDS Integers, Sequences, FiniteSets, TLC

\* ------------------------------------------------------------------ bounds
MaxRecords == 3      \* largest max_records of pubmed / openalex configurations
MaxBatch   == 2      \* largest batch_size / per_page of pubmed / openalex
MaxTotal   == 3      \* largest upstream result count of pubmed / openalex
MaxFail    == 1      \* injected terminal failures per behaviour (upstream not down)
MaxRuns    == 1      \* crashes or re-runs per behaviour

\* Cursor and error-count values past which an always-failing upstream's run
\* is folded onto itself (the loop goes on, the counters stay).
OffCap == MaxTotal + (MaxFail + 1) * MaxBatch + 1
ErrCap == MaxFail + 1

Min(a, b) == IF a < b THEN a ELSE b
Max(a, b) == IF a > b THEN a ELSE b

Sources == {"arxiv", "pubmed", "openalex"}

\* total_results = None
NoTotal == -1

\* ------------------------------------------------------- str() and int()
\* str(n) of a non-negative int: its decimal digits, most significant first.
RECURSIVE Digits(_)
Digits(n) == IF n < 10 THEN <<n>> ELSE Append(Digits(n \div 10), n % 10)

\* int(s) of a digit string.
RECURSIVE ParseInt(_)
ParseInt(s) ==
    IF Len(s) = 0 THEN 0
    ELSE 10 * ParseInt(SubSeq(s, 1, Len(s) - 1)) + s[Len(s)]

\* ------------------------------------------------------------ checkpoints
\* get_checkpoint() = None
NoCheckpoint ==
    [exists |-> FALSE, source |-> "", cursor |-> <<>>, records_processed |-> 0,
     metadata |-> <<>>]

\* The dict save_checkpoint builds (last_updated and metadata carry no
\* control; the adapters' metadata is left out, see WithMetadata).
Checkpoint(source, cursor, records_processed) ==
    [exists |-> TRUE, source |-> source, cursor |-> cursor,
     records_processed |-> records_processed, metadata |-> <<>>]

VARIABLES
    \* configuration and upstream, fixed for a behaviour
    adapter,          \* which ingester runs
    max_records,      \* config max_records
    batch_size,       \* config batch_size (per_page for openalex)
    year_enabled,     \* arxiv year_distribution.enabled
    bad,              \* upstream positions whose entry yields no record
    down,             \* every request to the upstream fails terminally
    \* the upstream's result count for a query
    total,
    \* locals of ingest()
    pc, offset, page, records_ingested, batches, errors, total_results,
    npage,            \* len(pmids) / entries / works of the current response
    nrec,             \* len(records) of the current response
    query_records, max_for_query, bin,
    batch_id,         \* batch being written
    pending,          \* checkpoint dict being saved
    \* the process: CheckpointManager._cache
    cache,
    \* the disk
    files,            \* final batch files: <<source, batch_id>> -> content
    temps,            \* batch temp files present: set of <<source, batch_id>>
    ckptFile,         \* checkpoint file per source
    ckptTemp,         \* checkpoint temp file per source present
    \* history
    start_ckpt,       \* what get_progress returned at the start of the run
    first_req,        \* cursor of the run's first upstream request, -1 before it
    cursors,          \* the cursors requested in the run (arxiv: the sub-query), in order
    nfetch,           \* pages fetched with success in this run
    log,              \* write / save events of the run, each with its nfetch
    ckptOf,           \* batch the checkpoint file on disk was saved for
    refetched,        \* pages fetched in this run whose batch file was already written
    chain,            \* batch files written since the last run that ended without error
    failures, runs,
    \* StorageSpec: StorageManager at file level
    compress,         \* StorageManager.compress
    fs,               \* the raw-data directory: path -> file
    w_pc, w_stream, w_source, w_batch, w_records,   \* the write call in progress
    w_i,              \* records serialized so far
    w_ret,            \* the call's return value
    before,           \* the canonical path's file when the call began
    dom_before,       \* the paths present when the call began
    calls,
    \* CkptSpec: CheckpointManager at file level
    c_fs,             \* the checkpoint directory: path -> text
    c_cache,          \* _cache
    c_pc, c_args,     \* the save call in progress and its checkpoint dict
    c_k,              \* tokens of the JSON text written so far
    c_prev,           \* what a fresh get() returned when the save began
    c_got,            \* what the last get() returned
    c_ops, c_last,
    \* RateSpec: one RateLimiter
    burst_size,       \* self.burst_size
    period,           \* 1 / requests_per_second, in clock ticks
    tokens,           \* self.tokens, in ticks' worth (one token = period ticks)
    last_update,      \* self.last_update
    clock,            \* time.monotonic()
    l_pc, wait_time,  \* the acquire call in progress and its wait
    total_requests,   \* acquire calls that returned
    spaced,           \* the caller paused between two calls
    \* HttpSpec: one RetryableHTTPClient.get call
    retry_attempts,   \* self.retry_attempts
    h_pc,
    attempt,          \* the for loop's variable
    attempts,         \* HTTP requests sent by the call
    acquires,         \* rate_limiter.acquire() calls made by the call
    sleeps,           \* the asyncio.sleep durations of the call, in order
    responses,        \* what the upstream answered, in order
    headers,          \* the Retry-After header of each answer, in order
    total_retries, total_errors,
    \* MainSpec: main() and run_ingestion
    enabled,          \* config[source]['enabled']
    behaviour,        \* what each source's adapter does in this run
    m_i, m_pc,        \* position in the sources list, position in the code
    m_sources,        \* results['sources']
    m_errors,         \* len(results['errors'])
    total_records,    \* results['total_records']
    exit_status,
    \* ParseSpec: one page of upstream entries parsed and written
    e_adapter,
    entries,          \* the id field of each entry of the page
    e_i,              \* entries parsed so far
    e_records,        \* records: the native id of each record kept
    e_written,        \* the list passed to write_records
    e_pc,
    \* TaskSpec: several tasks calling acquire() on the one RateLimiter
    t_pc,             \* where each task is in acquire()
    lock,             \* self._lock: the task holding it, or NoTask
    t_wait,           \* each task's local wait_time
    \* SharedSpec: two callers sharing one StorageManager and one
    \* CheckpointManager
    d_args,           \* each caller's source, batch_id, records, and whether
                      \* it clears its checkpoint at the end
    d_pc, d_i,        \* where each caller is, records it has written
    d_fs,             \* the data directory: path -> file
    d_cfs,            \* the checkpoint directory: path -> text
    d_cache,          \* CheckpointManager._cache
    \* YearSpec: _get_year_ranges
    g_max_records,    \* self.max_records
    g_i,              \* bins done
    g_result,         \* the records_per_range of each bin, oldest first
    \* AbstractSpec: _reconstruct_abstract
    b_index,          \* the inverted_index argument
    b_pc,
    word_positions,   \* the list of (pos, word) pairs
    b_out,            \* the value returned
    \* TwoPhaseSpec: the search and fetch requests of PubMedIngester.ingest
    q_pc, q_iter,     \* position in the loop body, iterations begun
    pmids,            \* the id list _search_pmids returned
    requests          \* the requests issued, in order, with their outcome

cfgvars  == <<adapter, max_records, batch_size, year_enabled, bad, down>>
runvars  == <<pc, offset, page, records_ingested, batches, errors, total_results,
              npage, nrec, query_records, max_for_query, bin, batch_id, pending>>
diskvars == <<files, temps, ckptFile, ckptTemp>>
histvars == <<start_ckpt, first_req, cursors, nfetch, log, ckptOf, refetched, chain>>
avars == <<cfgvars, total, runvars, cache, diskvars, histvars, failures, runs>>
svars == <<compress, fs, w_pc, w_stream, w_source, w_batch, w_records, w_i, w_ret,
           before, dom_before, calls>>
cvars == <<c_fs, c_cache, c_pc, c_args, c_k, c_prev, c_got, c_ops, c_last>>
rvars == <<burst_size, period, tokens, last_update, clock, l_pc, wait_time,
           total_requests, spaced>>
hvars == <<retry_attempts, h_pc, attempt, attempts, acquires, sleeps, responses,
           headers, total_retries, total_errors>>
mvars == <<enabled, behaviour, m_i, m_pc, m_sources, m_errors, total_records,
           exit_status>>
evars == <<e_adapter, entries, e_i, e_records, e_written, e_pc>>
tvars == <<t_pc, lock, t_wait>>
dvars == <<d_args, d_pc, d_i, d_fs, d_cfs, d_cache>>
gvars == <<g_max_records, g_i, g_result>>
bvars == <<b_index, b_pc, word_positions, b_out>>
qvars == <<q_pc, q_iter, pmids, requests>>
zvars == <<gvars, bvars, qvars>>
yvars == <<evars, tvars, dvars, zvars>>
xvars == <<rvars, hvars, mvars, yvars>>
others == <<svars, cvars, xvars>>
vars == <<avars, svars, cvars, xvars>>


\* ---------------------------------------------------------------- upstream
\* Entries the upstream serves for positions first .. first+size-1 of a
\* result list of `total` entries (never more than asked for).
Served(first, size) == Max(0, Min(first + size, total) - first)

\* Of n entries from position first on, those that parse to a record with a
\* native id (arxiv.py:153, pubmed.py:216, openalex.py:256-271).
Parsed(first, n) == n - Cardinality({i \in bad : first <= i /\ i < first + n})

\* ------------------------------------------------ StorageManager (as called)
FileKey(source, id) == <<source, id>>

\* temp_path.rename(file_path): the temp file becomes the final file.
RenameNoop(f, key, content) == f
Rename(f, key, content) ==
    [k \in DOMAIN f \cup {key} |-> IF k = key THEN content ELSE f[k]]

\* ---------------------------------------------- CheckpointManager (as called)
\* get_checkpoint: the cache entry if there is one, else the file.
GetCheckpoint(source) ==
    IF cache[source].exists THEN cache[source] ELSE ckptFile[source]

\* get_progress()[1] turned into a start cursor: int(cursor) if cursor else dflt
StartCursor(cp, dflt) ==
    IF cp.exists /\ cp.cursor # <<>> THEN ParseInt(cp.cursor) ELSE dflt

\* A fresh run: the locals of ingest() before its first statement, and the
\* run's history.
RunInit ==
    /\ pc' = "start"
    /\ offset' = 0
    /\ page' = 1
    /\ records_ingested' = 0
    /\ batches' = 0
    /\ errors' = 0
    /\ total_results' = NoTotal
    /\ npage' = 0
    /\ nrec' = 0
    /\ query_records' = 0
    /\ max_for_query' = 0
    /\ bin' = 0
    /\ batch_id' = <<"batch", 0>>
    /\ pending' = NoCheckpoint
    /\ start_ckpt' = NoCheckpoint
    /\ first_req' = -1
    /\ cursors' = <<>>
    /\ nfetch' = 0
    /\ log' = <<>>
    /\ refetched' = 0

\* The cursor of the run's first request.
NoteRequest(c) ==
    /\ first_req' = IF first_req = -1 THEN c ELSE first_req
    /\ cursors' = IF down THEN cursors ELSE Append(cursors, c)

\* A request that raises out of client.get (retries exhausted or a 4xx):
\* always when the upstream is down, within the failure budget otherwise.
MayFail == down \/ failures < MaxFail
NoteFailure == failures' = IF down THEN failures ELSE failures + 1

\* errors.append(...) ; the list's length, folded at ErrCap when the upstream is down
ErrorsAppend == errors' = IF down THEN Min(errors + 1, ErrCap) ELSE errors + 1

\* The cursor moved by d; when the upstream is down it stays where it is once
\* the move would pass OffCap (the run is folded onto itself).
MovedNot(c, d) == c

Moved(c, d) == IF down /\ c + d > OffCap THEN c ELSE c + d

ArxivMaxRecords == {1, 100}
ArxivBatch == {50}
ArxivTotals == {0, 25, 300}

AInit ==
    /\ adapter \in Sources
    /\ year_enabled \in (IF adapter = "arxiv" THEN BOOLEAN ELSE {FALSE})
    /\ max_records \in (IF adapter = "arxiv" THEN ArxivMaxRecords ELSE 1..MaxRecords)
    /\ batch_size \in (IF adapter = "arxiv" THEN ArxivBatch ELSE 1..MaxBatch)
    /\ total \in (IF adapter = "arxiv" THEN ArxivTotals ELSE 0..MaxTotal)
    /\ bad \in {b \in SUBSET (0..(MaxTotal - 1)) :
                    /\ Cardinality(b) <= 1
                    /\ adapter = "arxiv" => b \subseteq {0}}
    /\ down \in BOOLEAN
    /\ pc = "start"
    /\ offset = 0
    /\ page = 1
    /\ records_ingested = 0
    /\ batches = 0
    /\ errors = 0
    /\ total_results = NoTotal
    /\ npage = 0
    /\ nrec = 0
    /\ query_records = 0
    /\ max_for_query = 0
    /\ bin = 0
    /\ batch_id = <<"batch", 0>>
    /\ pending = NoCheckpoint
    /\ cache = [s \in Sources |-> NoCheckpoint]
    /\ files = [k \in {} |-> 0]
    /\ temps = {}
    /\ ckptFile = [s \in Sources |-> NoCheckpoint]
    /\ ckptTemp = [s \in Sources |-> FALSE]
    /\ start_ckpt = NoCheckpoint
    /\ first_req = -1
    /\ cursors = <<>>
    /\ nfetch = 0
    /\ log = <<>>
    /\ ckptOf = <<"none", 0>>
    /\ refetched = 0
    /\ chain = {}
    /\ failures = 0
    /\ runs = 0

\* pubmed.py line 361, openalex.py line 320: `if not results['errors']`
ClearAlways == TRUE
NoErrors == errors = 0

\* ---------------------------------------------------------------- pubmed
\* PubMedIngester.ingest, lines 281-298: load the checkpoint, set the offset.
P_Begin ==
    /\ adapter = "pubmed" /\ pc = "start"
    /\ LET cp == GetCheckpoint("pubmed") IN
        /\ cache' = [cache EXCEPT !["pubmed"] = cp]
        /\ start_ckpt' = cp
        /\ offset' = StartCursor(cp, 0)
    /\ total_results' = NoTotal
    /\ pc' = "loop"
    /\ UNCHANGED <<others, cfgvars, total, page, records_ingested, batches, errors, npage, nrec,
                   query_records, max_for_query, bin, batch_id, pending, diskvars,
                   first_req, cursors, nfetch, log, ckptOf, chain, refetched, failures, runs>>

\* lines 300-304: the ceiling check at the head of the loop.
P_LoopCheck ==
    /\ adapter = "pubmed" /\ pc = "loop"
    /\ pc' = IF records_ingested >= max_records THEN "finish" ELSE "search"
    /\ UNCHANGED <<others, cfgvars, total, offset, page, records_ingested, batches, errors,
                   total_results, npage, nrec, query_records, max_for_query, bin,
                   batch_id, pending, cache, diskvars, histvars, failures, runs>>

\* retmax of the search request (line 308).
P_RetmaxOne == Min(1, batch_size)
P_Retmax == Min(batch_size, max_records - records_ingested)

\* lines 308-317: the search request answers.
P_Search ==
    /\ adapter = "pubmed" /\ pc = "search" /\ ~down
    /\ NoteRequest(offset)
    /\ LET n == Served(offset, P_Retmax) IN
        /\ npage' = n
        /\ total_results' = IF total_results = NoTotal THEN total ELSE total_results
        /\ pc' = IF n = 0 THEN "finish" ELSE "fetch"
    /\ UNCHANGED <<others, cfgvars, total, offset, page, records_ingested, batches, errors, nrec,
                   query_records, max_for_query, bin, batch_id, pending, cache, diskvars,
                   start_ckpt, nfetch, log, ckptOf, chain, refetched, failures, runs>>

\* The search or the fetch request raises (caught at line 350).
P_RequestFails ==
    /\ adapter = "pubmed" /\ pc \in {"search", "fetch"} /\ MayFail
    /\ IF pc = "search" THEN NoteRequest(offset) ELSE UNCHANGED <<first_req, cursors>>
    /\ NoteFailure
    /\ pc' = "except"
    /\ UNCHANGED <<others, cfgvars, total, offset, page, records_ingested, batches, errors,
                   total_results, npage, nrec, query_records, max_for_query, bin,
                   batch_id, pending, cache, diskvars, start_ckpt, nfetch, log, ckptOf, chain,
                   refetched, runs>>

P_BatchIdFixed(o) == <<"batch", 0>>

\* line 324: batch_id = f"batch_{offset:08d}"
P_BatchId(o) == <<"batch", o>>

\* lines 320-324: the fetch request answers; records are parsed.
P_Fetch ==
    /\ adapter = "pubmed" /\ pc = "fetch" /\ ~down
    /\ nrec' = Parsed(offset, npage)
    /\ nfetch' = nfetch + 1
    /\ refetched' = IF FileKey("pubmed", P_BatchId(offset)) \in chain
                    THEN refetched + 1 ELSE refetched
    /\ batch_id' = P_BatchId(offset)
    /\ pc' = IF nrec' > 0 THEN "write_tmp" ELSE "advance"
    /\ UNCHANGED <<others, cfgvars, total, offset, page, records_ingested, batches, errors,
                   total_results, npage, query_records, max_for_query, bin, pending,
                   cache, diskvars, start_ckpt, first_req, cursors, log, ckptOf, chain, failures, runs>>

\* The cursor the checkpoint of a page records (line 333).
P_CursorSkip(o, n) == o + n + 1
P_Cursor(o, n) == o + n

\* lines 327-336: count the batch, build the checkpoint.
P_Written ==
    /\ adapter = "pubmed" /\ pc = "written"
    /\ records_ingested' = records_ingested + nrec
    /\ batches' = batches + 1
    /\ pending' = Checkpoint("pubmed", Digits(P_Cursor(offset, npage)), records_ingested')
    /\ pc' = "save_tmp"
    /\ UNCHANGED <<others, cfgvars, total, offset, page, errors, total_results, npage, nrec,
                   query_records, max_for_query, bin, batch_id, cache, diskvars,
                   histvars, failures, runs>>

\* lines 343-348: move the offset, stop when the upstream total is exhausted.
P_Advance ==
    /\ adapter = "pubmed" /\ pc = "advance"
    /\ offset' = offset + npage
    /\ pc' = IF offset' >= total_results THEN "finish" ELSE "loop"
    /\ UNCHANGED <<others, cfgvars, total, page, records_ingested, batches, errors,
                   total_results, npage, nrec, query_records, max_for_query, bin,
                   batch_id, pending, cache, diskvars, histvars, failures, runs>>

\* lines 350-356: record the error, skip the page.
P_Except ==
    /\ adapter = "pubmed" /\ pc = "except"
    /\ ErrorsAppend
    /\ offset' = Moved(offset, batch_size)
    /\ pc' = "loop"
    /\ UNCHANGED <<others, cfgvars, total, page, records_ingested, batches, total_results,
                   npage, nrec, query_records, max_for_query, bin, batch_id, pending,
                   cache, diskvars, histvars, failures, runs>>

\* lines 358-364: leave the loop; clear the checkpoint when no error was recorded.
P_Finish ==
    /\ adapter = "pubmed" /\ pc = "finish"
    /\ IF NoErrors
       THEN /\ ckptFile' = [ckptFile EXCEPT !["pubmed"] = NoCheckpoint]
            /\ cache' = [cache EXCEPT !["pubmed"] = NoCheckpoint]
       ELSE UNCHANGED <<ckptFile, cache>>
    /\ chain' = IF errors = 0 THEN {} ELSE chain
    /\ pc' = "done"
    /\ UNCHANGED <<others, cfgvars, total, offset, page, records_ingested, batches, errors,
                   total_results, npage, nrec, query_records, max_for_query, bin,
                   batch_id, pending, files, temps, ckptTemp, start_ckpt, first_req, cursors,
                   nfetch, log, ckptOf, refetched, failures, runs>>

\* ---------------------------------------------------------------- openalex
\* OpenAlexIngester.ingest, lines 208-222: load the checkpoint, set the page.
O_Begin ==
    /\ adapter = "openalex" /\ pc = "start"
    /\ LET cp == GetCheckpoint("openalex") IN
        /\ cache' = [cache EXCEPT !["openalex"] = cp]
        /\ start_ckpt' = cp
        /\ page' = StartCursor(cp, 1)
    /\ pc' = "loop"
    /\ UNCHANGED <<others, cfgvars, total, offset, records_ingested, batches, errors,
                   total_results, npage, nrec, query_records, max_for_query, bin,
                   batch_id, pending, diskvars, first_req, cursors, nfetch, log, ckptOf, chain,
                   refetched, failures, runs>>

\* lines 224-228
O_LoopCheck ==
    /\ adapter = "openalex" /\ pc = "loop"
    /\ pc' = IF records_ingested >= max_records THEN "finish" ELSE "request"
    /\ UNCHANGED <<others, cfgvars, total, offset, page, records_ingested, batches, errors,
                   total_results, npage, nrec, query_records, max_for_query, bin,
                   batch_id, pending, cache, diskvars, histvars, failures, runs>>

\* 'per-page' of the request (line 235).
O_PerPage == Min(batch_size, max_records - records_ingested)

\* lines 232-275: the page request answers; works are parsed.
O_Request ==
    /\ adapter = "openalex" /\ pc = "request" /\ ~down
    /\ NoteRequest(page)
    /\ LET first == (page - 1) * O_PerPage
           n == Served(first, O_PerPage) IN
        /\ npage' = n
        /\ nrec' = Parsed(first, n)
        /\ nfetch' = IF n = 0 THEN nfetch ELSE nfetch + 1
        /\ refetched' = IF n > 0 /\ FileKey("openalex", <<"page", page>>) \in chain
                        THEN refetched + 1 ELSE refetched
        /\ batch_id' = <<"page", page>>
        /\ pc' = IF n = 0 THEN "finish"
                 ELSE IF nrec' > 0 THEN "write_tmp" ELSE "advance"
    /\ UNCHANGED <<others, cfgvars, total, offset, page, records_ingested, batches, errors,
                   total_results, query_records, max_for_query, bin, pending, cache,
                   diskvars, start_ckpt, log, ckptOf, chain, failures, runs>>

\* client.get raises (caught at line 309).
O_RequestFails ==
    /\ adapter = "openalex" /\ pc = "request" /\ MayFail
    /\ NoteRequest(page)
    /\ NoteFailure
    /\ pc' = "except"
    /\ UNCHANGED <<others, cfgvars, total, offset, page, records_ingested, batches, errors,
                   total_results, npage, nrec, query_records, max_for_query, bin,
                   batch_id, pending, cache, diskvars, start_ckpt, nfetch, log, ckptOf, chain,
                   refetched, runs>>

\* lines 278-290: count the batch, build the checkpoint.
O_Written ==
    /\ adapter = "openalex" /\ pc = "written"
    /\ records_ingested' = records_ingested + nrec
    /\ batches' = batches + 1
    /\ pending' = Checkpoint("openalex", Digits(page + 1), records_ingested')
    /\ pc' = "save_tmp"
    /\ UNCHANGED <<others, cfgvars, total, offset, page, errors, total_results, npage, nrec,
                   query_records, max_for_query, bin, batch_id, cache, diskvars,
                   histvars, failures, runs>>

\* lines 299-307: stop when the upstream count is covered, else the next page.
O_Advance ==
    /\ adapter = "openalex" /\ pc = "advance"
    /\ LET current_offset == (page - 1) * batch_size + npage IN
        IF current_offset >= total
        THEN pc' = "finish" /\ page' = page
        ELSE pc' = "loop" /\ page' = page + 1
    /\ UNCHANGED <<others, cfgvars, total, offset, records_ingested, batches, errors,
                   total_results, npage, nrec, query_records, max_for_query, bin,
                   batch_id, pending, cache, diskvars, histvars, failures, runs>>

\* lines 309-315: record the error, skip the page.
O_Except ==
    /\ adapter = "openalex" /\ pc = "except"
    /\ ErrorsAppend
    /\ page' = Moved(page, 1)
    /\ pc' = "loop"
    /\ UNCHANGED <<others, cfgvars, total, offset, records_ingested, batches, total_results,
                   npage, nrec, query_records, max_for_query, bin, batch_id, pending,
                   cache, diskvars, histvars, failures, runs>>

\* lines 317-323
O_Finish ==
    /\ adapter = "openalex" /\ pc = "finish"
    /\ IF NoErrors
       THEN /\ ckptFile' = [ckptFile EXCEPT !["openalex"] = NoCheckpoint]
            /\ cache' = [cache EXCEPT !["openalex"] = NoCheckpoint]
       ELSE UNCHANGED <<ckptFile, cache>>
    /\ chain' = IF errors = 0 THEN {} ELSE chain
    /\ pc' = "done"
    /\ UNCHANGED <<others, cfgvars, total, offset, page, records_ingested, batches, errors,
                   total_results, npage, nrec, query_records, max_for_query, bin,
                   batch_id, pending, files, temps, ckptTemp, start_ckpt, first_req, cursors,
                   nfetch, log, ckptOf, refetched, failures, runs>>

\* ------------------------------------------------------------------ arxiv
\* _get_year_ranges, lines 177-201: the four year bins with their weights in
\* percent; with the default start and end years all four bins are valid.
NumBins == 4
MinPerBin == 20
Weights == <<15, 20, 25, 40>>

\* lines 198-199: int(total * weights[i]), then max(20, records)
BinTargetNoClamp(t, i) == (t * Weights[i]) \div 100
BinTarget(t, i) == Max(MinPerBin, (t * Weights[i]) \div 100)

YearTarget(i) == BinTarget(max_records, i)

\* ArxivIngester.ingest, lines 218-236: the checkpoint is loaded, the start
\* offset computed from it (and used only in a log line).
A_Begin ==
    /\ adapter = "arxiv" /\ pc = "start"
    /\ LET cp == GetCheckpoint("arxiv") IN
        /\ cache' = [cache EXCEPT !["arxiv"] = cp]
        /\ start_ckpt' = cp
    /\ bin' = IF year_enabled THEN 1 ELSE 0
    /\ pc' = "query"
    /\ UNCHANGED <<others, cfgvars, total, offset, page, records_ingested, batches, errors,
                   total_results, npage, nrec, query_records, max_for_query,
                   batch_id, pending, diskvars, first_req, cursors, nfetch, log, ckptOf, chain,
                   refetched, failures, runs>>

\* lines 238-261 and 277-279: the next sub-query starts (one per year bin, or
\* the single base query), or the run is over.
A_Query ==
    /\ adapter = "arxiv" /\ pc = "query"
    /\ IF year_enabled /\ (bin > NumBins \/ records_ingested >= max_records)
       THEN /\ pc' = "finish"
            /\ UNCHANGED <<total, max_for_query, query_records, offset, total_results,
                           cursors>>
       ELSE /\ total' = total
            /\ cursors' = <<>>
            /\ max_for_query' = IF year_enabled THEN YearTarget(bin) ELSE max_records
            /\ query_records' = 0
            /\ offset' = 0
            /\ total_results' = NoTotal
            /\ pc' = "loop"
    /\ UNCHANGED <<others, cfgvars, page, records_ingested, batches, errors, npage, nrec, bin,
                   batch_id, pending, cache, diskvars, start_ckpt, first_req, nfetch,
                   log, ckptOf, refetched, chain, failures, runs>>

\* Where control goes when _fetch_records_for_query returns.
A_AfterQuery == IF year_enabled THEN "query" ELSE "finish"

\* line 281: the loop condition of _fetch_records_for_query.
A_LoopCheck ==
    /\ adapter = "arxiv" /\ pc = "loop"
    /\ IF query_records < max_for_query /\ records_ingested < max_records
       THEN pc' = "request" /\ bin' = bin
       ELSE pc' = A_AfterQuery /\ bin' = bin + 1
    /\ UNCHANGED <<others, cfgvars, total, offset, page, records_ingested, batches, errors,
                   total_results, npage, nrec, query_records, max_for_query,
                   batch_id, pending, cache, diskvars, histvars, failures, runs>>

\* max_results of the request (line 286).
A_MaxResults == Min(batch_size, max_for_query - query_records)

\* lines 283-306: the request answers; entries are parsed.
A_Request ==
    /\ adapter = "arxiv" /\ pc = "request" /\ ~down
    /\ NoteRequest(offset)
    /\ LET n == Served(offset, A_MaxResults) IN
        /\ npage' = n
        /\ nrec' = Parsed(offset, n)
        /\ total_results' = IF total_results = NoTotal THEN total ELSE total_results
        /\ nfetch' = IF nrec' = 0 THEN nfetch ELSE nfetch + 1
        /\ refetched' = IF nrec' > 0 /\
                           FileKey("arxiv", <<"batch", records_ingested>>) \in chain
                        THEN refetched + 1 ELSE refetched
        /\ batch_id' = <<"batch", records_ingested>>
        /\ IF nrec' = 0
           THEN pc' = A_AfterQuery /\ bin' = bin + 1
           ELSE pc' = "write_tmp" /\ bin' = bin
    /\ UNCHANGED <<others, cfgvars, total, offset, page, records_ingested, batches, errors,
                   query_records, max_for_query, pending, cache, diskvars,
                   start_ckpt, log, ckptOf, chain, failures, runs>>

\* client.get raises (caught at line 333).
A_RequestFails ==
    /\ adapter = "arxiv" /\ pc = "request" /\ MayFail
    /\ NoteRequest(offset)
    /\ NoteFailure
    /\ pc' = "except"
    /\ UNCHANGED <<others, cfgvars, total, offset, page, records_ingested, batches, errors,
                   total_results, npage, nrec, query_records, max_for_query, bin,
                   batch_id, pending, cache, diskvars, start_ckpt, nfetch, log, ckptOf, chain,
                   refetched, runs>>

\* lines 309-319: count the batch, build the checkpoint.
A_Written ==
    /\ adapter = "arxiv" /\ pc = "written"
    /\ records_ingested' = records_ingested + nrec
    /\ batches' = batches + 1
    /\ query_records' = query_records + nrec
    /\ pending' = Checkpoint("arxiv", Digits(records_ingested'), records_ingested')
    /\ pc' = "save_tmp"
    /\ UNCHANGED <<others, cfgvars, total, offset, page, errors, total_results, npage, nrec,
                   max_for_query, bin, batch_id, cache, diskvars, histvars,
                   failures, runs>>

\* lines 326-331: move the offset, stop when the query's total is covered.
A_Advance ==
    /\ adapter = "arxiv" /\ pc = "advance"
    /\ offset' = offset + nrec
    /\ IF total_results # NoTotal /\ total_results # 0 /\ offset' >= total_results
       THEN pc' = A_AfterQuery /\ bin' = bin + 1
       ELSE pc' = "loop" /\ bin' = bin
    /\ UNCHANGED <<others, cfgvars, total, page, records_ingested, batches, errors,
                   total_results, npage, nrec, query_records, max_for_query,
                   batch_id, pending, cache, diskvars, histvars, failures, runs>>

\* lines 333-339: record the error, skip the page.
A_Except ==
    /\ adapter = "arxiv" /\ pc = "except"
    /\ ErrorsAppend
    /\ offset' = Moved(offset, batch_size)
    /\ pc' = "loop"
    /\ UNCHANGED <<others, cfgvars, total, page, records_ingested, batches, total_results,
                   npage, nrec, query_records, max_for_query, bin, batch_id, pending,
                   cache, diskvars, histvars, failures, runs>>

\* lines 263-267: the stats are read and the result returned; the checkpoint
\* is left as it is.
A_Finish ==
    /\ adapter = "arxiv" /\ pc = "finish"
    /\ chain' = IF errors = 0 THEN {} ELSE chain
    /\ pc' = "done"
    /\ UNCHANGED <<others, cfgvars, total, offset, page, records_ingested, batches, errors,
                   total_results, npage, nrec, query_records, max_for_query, bin,
                   batch_id, pending, cache, diskvars, start_ckpt, first_req, cursors,
                   nfetch, log, ckptOf, refetched, failures, runs>>

\* ------------------------------------- write_records and save_checkpoint
Source == adapter

\* storage.py lines 105-118: the temp file is written in full.
WriteTemp ==
    /\ pc = "write_tmp"
    /\ temps' = temps \cup {FileKey(Source, batch_id)}
    /\ pc' = "write_rename"
    /\ UNCHANGED <<others, cfgvars, total, offset, page, records_ingested, batches, errors,
                   total_results, npage, nrec, query_records, max_for_query, bin,
                   batch_id, pending, cache, files, ckptFile, ckptTemp, histvars,
                   failures, runs>>

\* storage.py lines 126-130: writing raises; the temp file is removed and the
\* exception reaches the adapter's handler.
WriteFails ==
    /\ pc = "write_tmp" /\ ~down /\ failures < MaxFail
    /\ temps' = temps \ {FileKey(Source, batch_id)}
    /\ failures' = failures + 1
    /\ log' = Append(log, <<"write_failed", nfetch, batch_id>>)
    /\ pc' = "except"
    /\ UNCHANGED <<others, cfgvars, total, offset, page, records_ingested, batches, errors,
                   total_results, npage, nrec, query_records, max_for_query, bin,
                   batch_id, pending, cache, files, ckptFile, ckptTemp, start_ckpt,
                   first_req, cursors, nfetch, ckptOf, refetched, chain, runs>>

\* The content of the batch file: the positions fetched, the records kept
\* and the _ingested_at stamp of the records (storage.py line 113), which
\* tells the writes of one process from those of the next.
BatchContent ==
    [first |-> IF adapter = "openalex" THEN (page - 1) * O_PerPage ELSE offset,
     len |-> npage, recs |-> nrec, ingested_at |-> runs]

\* storage.py lines 121-124: the rename makes the batch visible; write_records returns.
WriteRename ==
    /\ pc = "write_rename"
    /\ files' = Rename(files, FileKey(Source, batch_id), BatchContent)
    /\ temps' = temps \ {FileKey(Source, batch_id)}
    /\ log' = Append(log, <<"write", nfetch, batch_id>>)
    /\ chain' = chain \cup {FileKey(Source, batch_id)}
    /\ pc' = "written"
    /\ UNCHANGED <<others, cfgvars, total, offset, page, records_ingested, batches, errors,
                   total_results, npage, nrec, query_records, max_for_query, bin,
                   batch_id, pending, cache, ckptFile, ckptTemp, start_ckpt, first_req, cursors,
                   nfetch, ckptOf, refetched, failures, runs>>

\* checkpoint.py lines 92-94: the checkpoint temp file is written.
SaveTemp ==
    /\ pc = "save_tmp"
    /\ ckptTemp' = [ckptTemp EXCEPT ![Source] = TRUE]
    /\ log' = Append(log, <<"save", nfetch, batch_id>>)
    /\ pc' = "save_rename"
    /\ UNCHANGED <<others, cfgvars, total, offset, page, records_ingested, batches, errors,
                   total_results, npage, nrec, query_records, max_for_query, bin,
                   batch_id, pending, cache, files, temps, ckptFile, start_ckpt,
                   first_req, cursors, nfetch, ckptOf, chain, refetched, failures, runs>>

\* checkpoint.py lines 100-102: writing the temp file raises IOError, which
\* reaches the adapter's handler; the temp file may be left behind.
SaveFails ==
    /\ pc = "save_tmp" /\ ~down /\ failures < MaxFail
    /\ ckptTemp' \in {ckptTemp, [ckptTemp EXCEPT ![Source] = TRUE]}
    /\ failures' = failures + 1
    /\ log' = Append(log, <<"save_failed", nfetch, batch_id>>)
    /\ pc' = "except"
    /\ UNCHANGED <<others, cfgvars, total, offset, page, records_ingested, batches, errors,
                   total_results, npage, nrec, query_records, max_for_query, bin,
                   batch_id, pending, cache, files, temps, ckptFile, start_ckpt,
                   first_req, cursors, nfetch, ckptOf, refetched, chain, runs>>

\* checkpoint.py lines 95-98: rename over the final path, then the cache.
SaveRename ==
    /\ pc = "save_rename"
    /\ ckptFile' = [ckptFile EXCEPT ![Source] = pending]
    /\ ckptTemp' = [ckptTemp EXCEPT ![Source] = FALSE]
    /\ cache' = [cache EXCEPT ![Source] = pending]
    /\ ckptOf' = batch_id
    /\ pc' = "advance"
    /\ UNCHANGED <<others, cfgvars, total, offset, page, records_ingested, batches, errors,
                   total_results, npage, nrec, query_records, max_for_query, bin,
                   batch_id, pending, files, temps, start_ckpt, first_req, cursors, nfetch, log,
                   refetched, chain, failures, runs>>

\* ------------------------------------------------------ crashes and re-runs
\* The process stops between two steps (crash, interrupt, timeout) and a new
\* process starts a run on the same directories.
Crash ==
    /\ pc \notin {"start", "done"} /\ runs < MaxRuns
    /\ runs' = runs + 1
    /\ cache' = [s \in Sources |-> NoCheckpoint]
    /\ RunInit
    /\ UNCHANGED <<others, cfgvars, total, diskvars, ckptOf, chain, failures>>

\* ingest() has returned; a new process runs the same source again.
Rerun ==
    /\ pc = "done" /\ runs < MaxRuns
    /\ runs' = runs + 1
    /\ cache' = [s \in Sources |-> NoCheckpoint]
    /\ RunInit
    /\ UNCHANGED <<others, cfgvars, total, diskvars, ckptOf, chain, failures>>

\* The adapter variables at rest (StorageSpec and CkptSpec leave them alone).
AIdle ==
    /\ adapter = "pubmed" /\ max_records = 1 /\ batch_size = 1
    /\ year_enabled = FALSE /\ bad = {} /\ down = FALSE /\ total = 0
    /\ pc = "done" /\ offset = 0 /\ page = 1 /\ records_ingested = 0
    /\ batches = 0 /\ errors = 0 /\ total_results = NoTotal
    /\ npage = 0 /\ nrec = 0 /\ query_records = 0 /\ max_for_query = 0
    /\ bin = 0 /\ batch_id = <<"batch", 0>> /\ pending = NoCheckpoint
    /\ cache = [s \in Sources |-> NoCheckpoint]
    /\ files = [k \in {} |-> 0] /\ temps = {}
    /\ ckptFile = [s \in Sources |-> NoCheckpoint]
    /\ ckptTemp = [s \in Sources |-> FALSE]
    /\ start_ckpt = NoCheckpoint /\ first_req = -1 /\ cursors = <<>> /\ nfetch = 0
    /\ log = <<>> /\ ckptOf = <<"none", 0>> /\ refetched = 0 /\ chain = {}
    /\ failures = 0 /\ runs = 0

\* ============================================ StorageManager at file level
MaxK     == 2        \* records in one write call
MaxCalls == 2        \* write calls per behaviour

\* A record is a dict: its (key, value) items in insertion order.
RecA == << <<"pmid", "p1">>, <<"title", "t1">> >>
RecB == << <<"pmid", "p2">> >>
Records == {RecA, RecB}
\* The lists passed to a write: 0 .. MaxK records, alternating between the
\* two records, starting with either.
RecordList(first, k) ==
    [i \in 1..k |-> IF i % 2 = 1 THEN first ELSE CHOOSE r \in Records : r # first]
RecordLists == {RecordList(first, k) : first \in Records, k \in 0..MaxK}

StorageSources == {"pubmed", "openalex"}
BatchIds == {"batch_00000000", "batch_00000100"}

\* datetime.utcnow().isoformat()
Now == "2024-01-01T00:00:00"

InjectedKeys == {"_ingested_at", "_source", "_batch_id"}

\* d[k] = v on a dict
SetItem(d, k, v) ==
    IF \E i \in DOMAIN d : d[i][1] = k
    THEN [i \in DOMAIN d |-> IF d[i][1] = k THEN <<k, v>> ELSE d[i]]
    ELSE Append(d, <<k, v>>)

\* storage.py lines 113-115: the three metadata fields set on the record.
StampNoBatch(record, source, id) ==
    SetItem(SetItem(record, "_ingested_at", Now), "_source", source)
Stamp(record, source, id) ==
    SetItem(SetItem(SetItem(record, "_ingested_at", Now), "_source", source),
            "_batch_id", id)

\* json.dump(record, f) + '\n': one line, the items' keys and values in order.
Dump(d) ==
    [i \in 1..(2 * Len(d)) |->
        IF i % 2 = 1 THEN d[(i + 1) \div 2][1] ELSE d[i \div 2][2]]

\* json.loads(line)
Loads(line) == [i \in 1..(Len(line) \div 2) |-> <<line[2 * i - 1], line[2 * i]>>]

\* pathlib's with_suffix: the last suffix of the name is replaced.
WithSuffix(name, suffix) ==
    IF Len(name) > 1 THEN [name EXCEPT ![Len(name)] = suffix] ELSE Append(name, suffix)

\* _get_file_path, lines 76-78: <source>/ingest_date=<today>/<batch_id><extension>
\* (one ingest date; a name is its stem followed by its suffixes).
GetFilePath(source, id) ==
    [source |-> source,
     name |-> IF compress THEN <<id, "ndjson", "gz">> ELSE <<id, "ndjson">>]

\* lines 103 and 154: temp_path = file_path.with_suffix('.tmp')
SharedTemp(path) == [path EXCEPT !.name = <<"batch", "tmp">>]
TempPath(path) == [path EXCEPT !.name = WithSuffix(path.name, "tmp")]

\* list_files, lines 199-201: partition.glob('*.ndjson*'), a name with a
\* suffix that starts with .ndjson
ListFiles(source) ==
    {p \in DOMAIN fs :
        /\ p.source = source
        /\ \E i \in 2..Len(p.name) : p.name[i] = "ndjson"}

\* read_records, lines 219-225: the file's non-blank lines, each parsed.
ReadRecords(path) ==
    LET lines == SelectSeq(fs[path].lines, LAMBDA l : Len(l) > 0)
    IN [i \in 1..Len(lines) |-> Loads(lines[i])]

\* A file: the lines written to it, and whether its writer closed it after
\* the last record (a file being written, or left by a crash, is not closed).
File(lines, closed) == [lines |-> lines, closed |-> closed]
NoFile == [exists |-> FALSE, file |-> File(<<>>, FALSE)]

Put(f, path, file) == [p \in DOMAIN f \cup {path} |-> IF p = path THEN file ELSE f[p]]
Remove(f, path) == [p \in DOMAIN f \ {path} |-> f[p]]

\* temp_path.rename(path)
RenameFileNot(f, from, to) == f

RenameFile(f, from, to) ==
    IF from = to THEN f ELSE Remove(Put(f, to, f[from]), from)

\* lines 126-130 and 178-182: the handler removes the temp file if it exists.
KeepTemp(f, path) == f
RemoveTemp(f, path) == IF path \in DOMAIN f THEN Remove(f, path) ELSE f

FilePathNow == GetFilePath(w_source, w_batch)
TempPathNow == TempPath(FilePathNow)

SIdle ==
    /\ compress = TRUE /\ fs = [p \in {} |-> 0]
    /\ w_pc = "idle" /\ w_stream = FALSE /\ w_source = "pubmed"
    /\ w_batch = "batch_00000000" /\ w_records = <<>> /\ w_i = 0 /\ w_ret = 0
    /\ before = NoFile /\ dom_before = {} /\ calls = 0

SInit ==
    /\ compress \in BOOLEAN /\ fs = [p \in {} |-> 0]
    /\ w_pc = "idle" /\ w_stream = FALSE /\ w_source = "pubmed"
    /\ w_batch = "batch_00000000" /\ w_records = <<>> /\ w_i = 0 /\ w_ret = 0
    /\ before = NoFile /\ dom_before = {} /\ calls = 0

\* write_records lines 99-110 / write_record_stream lines 153-161: the call
\* begins; write_records returns 0 for an empty list, else the temp file is
\* opened for writing (created or truncated).
S_Call ==
    /\ w_pc = "idle" /\ calls < MaxCalls
    /\ calls' = calls + 1
    /\ w_stream' \in BOOLEAN
    /\ w_source' \in StorageSources
    /\ w_batch' \in BatchIds
    /\ w_records' \in RecordLists
    /\ w_i' = 0
    /\ dom_before' = DOMAIN fs
    /\ LET path == GetFilePath(w_source', w_batch') IN
        /\ before' = IF path \in DOMAIN fs
                     THEN [exists |-> TRUE, file |-> fs[path]] ELSE NoFile
        /\ IF ~w_stream' /\ w_records' = <<>>
           THEN /\ w_pc' = "returned" /\ w_ret' = 0 /\ fs' = fs
           ELSE /\ w_pc' = "writing" /\ w_ret' = w_ret
                /\ fs' = Put(fs, TempPath(path), File(<<>>, FALSE))
    /\ UNCHANGED <<avars, cvars, xvars, compress>>

\* lines 111-118 / 162-172: the next record is stamped and written as a line.
S_WriteRecord ==
    /\ w_pc = "writing" /\ w_i < Len(w_records)
    /\ fs' = Put(fs, TempPathNow,
                 File(Append(fs[TempPathNow].lines,
                             Dump(Stamp(w_records[w_i + 1], w_source, w_batch))),
                      FALSE))
    /\ w_i' = w_i + 1
    /\ UNCHANGED <<avars, cvars, xvars, compress, w_pc, w_stream, w_source, w_batch,
                   w_records, w_ret, before, dom_before, calls>>

\* Serializing the next record (or the final flush) raises: the handler removes the temp file and
\* re-raises (lines 126-130 / 178-182).
S_RecordFails ==
    /\ w_pc = "writing"
    /\ fs' = RemoveTemp(fs, TempPathNow)
    /\ w_pc' = "raised"
    /\ UNCHANGED <<avars, cvars, xvars, compress, w_stream, w_source, w_batch, w_records,
                   w_i, w_ret, before, dom_before, calls>>

\* The with block ends: the temp file is flushed and closed.
S_Close ==
    /\ w_pc = "writing" /\ w_i = Len(w_records)
    /\ fs' = Put(fs, TempPathNow, File(fs[TempPathNow].lines, TRUE))
    /\ w_pc' = "closed"
    /\ UNCHANGED <<avars, cvars, xvars, compress, w_stream, w_source, w_batch, w_records,
                   w_i, w_ret, before, dom_before, calls>>

\* lines 121-124 / 174-176: rename to the final path, return the count.
S_Rename ==
    /\ w_pc = "closed"
    /\ fs' = RenameFile(fs, TempPathNow, FilePathNow)
    /\ w_ret' = w_i
    /\ w_pc' = "returned"
    /\ UNCHANGED <<avars, cvars, xvars, compress, w_stream, w_source, w_batch, w_records,
                   w_i, before, dom_before, calls>>

\* The call's arguments and locals go out of scope.
CallEnds ==
    /\ w_pc' = "idle" /\ w_stream' = FALSE /\ w_source' = "pubmed"
    /\ w_batch' = "batch_00000000" /\ w_records' = <<>> /\ w_i' = 0 /\ w_ret' = 0
    /\ before' = NoFile /\ dom_before' = {}

\* The caller goes on after the call returned or raised.
S_Done ==
    /\ w_pc \in {"returned", "raised"}
    /\ CallEnds
    /\ UNCHANGED <<avars, cvars, xvars, compress, fs, calls>>

\* The process dies in the middle of a write; what is on disk stays.
S_Crash ==
    /\ w_pc \in {"writing", "closed"}
    /\ CallEnds
    /\ UNCHANGED <<avars, cvars, xvars, compress, fs, calls>>

StorageNext ==
    \/ S_Call \/ S_WriteRecord \/ S_RecordFails \/ S_Close \/ S_Rename
    \/ S_Done \/ S_Crash

\* =========================================== CheckpointManager at file level
MaxOps    == 3       \* save, get and clear calls per behaviour
MaxCursor == 1       \* cursors saved are 0 .. MaxCursor
\* The record count saved with cursor c (the run has kept one record more
\* than the cursor's value).
RecordCount(c) == c + 1

CkptSources == {"arxiv", "pubmed"}

\* _get_checkpoint_path: <checkpoint_dir>/<source>_checkpoint.json
SharedCheckpointPath(source) == <<"checkpoint", "json">>
GetCheckpointPath(source) == <<source, "_checkpoint", "json">>

\* line 92: temp_path = checkpoint_path.with_suffix('.tmp')
DirectPath(path) == path
CkptTempPath(path) == WithSuffix(path, "tmp")

\* The metadata argument of save_checkpoint: None (not given), or a dict.
NoMetadata == [given |-> FALSE, value |-> <<>>]
Metadatas == {NoMetadata, [given |-> TRUE, value |-> << <<"total_available", "3">> >>]}

\* line 85: metadata or {}
MetadataOrEmpty(m) == IF m.given /\ m.value # <<>> THEN m.value ELSE <<>>

\* line 80-86 with the metadata of the call.
WithMetadata(cp, m) == [cp EXCEPT !.metadata = MetadataOrEmpty(m)]

\* The last save or clear call that ran to its end, its source, and whether
\* get_checkpoint was called for that source since.
NoCall == [op |-> "none", source |-> "", got |-> FALSE]

\* json.dump(checkpoint, f, indent=2): the text, as the pieces written in
\* order (lines 80-86 give the keys).
Encode(cp) ==
    << "{", <<"source", cp.source>>, <<"cursor", cp.cursor>>,
       <<"records_processed", cp.records_processed>>,
       <<"last_updated", Now>>, <<"metadata", cp.metadata>>, "}" >>

TextLen == Len(Encode(NoCheckpoint))

\* A text is a complete JSON document only when the closing brace is there.
Complete(text) == Len(text) = TextLen /\ text[1] = "{" /\ text[TextLen] = "}"

\* json.load(f): the checkpoint, or JSONDecodeError on anything incomplete
\* (lines 55-62 turn the error into None).
DecodeNoMetadata(text) ==
    IF Complete(text)
    THEN Checkpoint(text[2][2], text[3][2], text[4][2])
    ELSE NoCheckpoint
Decode(text) ==
    IF Complete(text)
    THEN [Checkpoint(text[2][2], text[3][2], text[4][2]) EXCEPT !.metadata = text[6][2]]
    ELSE NoCheckpoint

\* get_checkpoint in a process that has just started (empty cache).
FreshGet(source) ==
    IF GetCheckpointPath(source) \in DOMAIN c_fs
    THEN Decode(c_fs[GetCheckpointPath(source)])
    ELSE NoCheckpoint

SavePathNow == GetCheckpointPath(c_args.source)
SaveTempNow == CkptTempPath(SavePathNow)

CIdle ==
    /\ c_fs = [p \in {} |-> 0] /\ c_cache = [s \in Sources |-> NoCheckpoint]
    /\ c_pc = "idle" /\ c_args = NoCheckpoint /\ c_k = 0 /\ c_prev = NoCheckpoint
    /\ c_got = NoCheckpoint /\ c_ops = 0 /\ c_last = NoCall

CInit ==
    /\ c_fs = [p \in {} |-> 0] /\ c_cache = [s \in Sources |-> NoCheckpoint]
    /\ c_pc = "idle" /\ c_args = NoCheckpoint /\ c_k = 0 /\ c_prev = NoCheckpoint
    /\ c_got = NoCheckpoint /\ c_ops = 0 /\ c_last = NoCall

\* save_checkpoint lines 80-93: the dict is built and the temp file opened
\* for writing (created or truncated).
C_SaveOpen ==
    /\ c_pc = "idle" /\ c_ops < MaxOps
    /\ \E s \in CkptSources, c \in 0..MaxCursor, m \in Metadatas :
         /\ c_args' = WithMetadata(Checkpoint(s, Digits(c), RecordCount(c)), m)
         /\ c_prev' = FreshGet(s)
         /\ c_fs' = Put(c_fs, CkptTempPath(GetCheckpointPath(s)), <<>>)
    /\ c_k' = 0
    /\ c_pc' = "dump"
    /\ c_ops' = c_ops + 1
    /\ c_last' = NoCall
    /\ c_got' = NoCheckpoint
    /\ UNCHANGED <<avars, svars, xvars, c_cache>>

\* The file object buffers what json.dump writes; the pieces reach the file
\* when the buffer is flushed: once part-way through the text, then at the end.
NextFlush(k) == IF k = 0 THEN TextLen \div 2 ELSE TextLen

\* line 94: json.dump writes the text; the next flush reaches the temp file.
C_WriteChunk ==
    /\ c_pc = "dump" /\ c_k < TextLen
    /\ c_fs' = Put(c_fs, SaveTempNow,
                   c_fs[SaveTempNow] \o SubSeq(Encode(c_args), c_k + 1, NextFlush(c_k)))
    /\ c_k' = NextFlush(c_k)
    /\ UNCHANGED <<avars, svars, xvars, c_cache, c_pc, c_args, c_prev, c_got, c_ops, c_last>>

\* The with block ends, the temp file is closed.
C_Close ==
    /\ c_pc = "dump" /\ c_k = TextLen
    /\ c_pc' = "rename"
    /\ UNCHANGED <<avars, svars, xvars, c_fs, c_cache, c_args, c_k, c_prev, c_got, c_ops, c_last>>

\* lines 95-97: rename over the final path, then the cache entry.
C_SaveRename ==
    /\ c_pc = "rename"
    /\ c_fs' = RenameFile(c_fs, SaveTempNow, SavePathNow)
    /\ c_cache' = [c_cache EXCEPT ![c_args.source] = c_args]
    /\ c_pc' = "idle"
    /\ c_last' = [op |-> "save", source |-> c_args.source, got |-> FALSE]
    /\ UNCHANGED <<avars, svars, xvars, c_args, c_k, c_prev, c_got, c_ops>>

\* lines 100-102: an IOError while writing or renaming is logged and raised;
\* the files stay as they are.
C_SaveIOError ==
    /\ c_pc \in {"dump", "rename"}
    /\ c_pc' = "idle"
    /\ UNCHANGED <<avars, svars, xvars, c_fs, c_cache, c_args, c_k, c_prev, c_got, c_ops, c_last>>

\* The process dies during save; the next process starts with an empty cache.
C_Crash ==
    /\ c_pc \in {"dump", "rename"}
    /\ c_pc' = "idle"
    /\ c_cache' = [s \in Sources |-> NoCheckpoint]
    /\ UNCHANGED <<avars, svars, xvars, c_fs, c_args, c_k, c_prev, c_got, c_ops, c_last>>

\* get_checkpoint lines 46-62.
C_Get ==
    /\ c_pc = "idle" /\ c_ops < MaxOps
    /\ \E s \in CkptSources :
         /\ IF c_cache[s].exists
            THEN c_got' = c_cache[s] /\ c_cache' = c_cache
            ELSE /\ c_got' = FreshGet(s)
                 /\ c_cache' = [c_cache EXCEPT ![s] = FreshGet(s)]
         /\ c_last' = [c_last EXCEPT !.got = (s = c_last.source)]
    /\ c_ops' = c_ops + 1
    /\ UNCHANGED <<avars, svars, xvars, c_fs, c_pc, c_args, c_k, c_prev>>

\* clear_checkpoint lines 111-117.
C_Clear ==
    /\ c_pc = "idle" /\ c_ops < MaxOps
    /\ \E s \in CkptSources :
         /\ c_fs' = IF GetCheckpointPath(s) \in DOMAIN c_fs
                    THEN Remove(c_fs, GetCheckpointPath(s)) ELSE c_fs
         /\ c_cache' = [c_cache EXCEPT ![s] = NoCheckpoint]
         /\ IF c_args.exists /\ c_args.source = s
            THEN c_args' = NoCheckpoint /\ c_prev' = NoCheckpoint
            ELSE UNCHANGED <<c_args, c_prev>>
         /\ c_last' = [op |-> "clear", source |-> s, got |-> FALSE]
    /\ c_ops' = c_ops + 1
    /\ c_got' = NoCheckpoint
    /\ UNCHANGED <<avars, svars, xvars, c_pc, c_k>>

\* The process ends between two calls; the next one starts with an empty
\* cache (line 30) on the same directory.
C_Restart ==
    /\ c_pc = "idle" /\ c_last.op # "none"
    /\ c_cache' = [s \in Sources |-> NoCheckpoint]
    /\ c_last' = [c_last EXCEPT !.got = FALSE]
    /\ c_got' = NoCheckpoint
    /\ UNCHANGED <<avars, svars, xvars, c_fs, c_pc, c_args, c_k, c_prev, c_ops>>

CkptNext ==
    \/ C_SaveOpen \/ C_WriteChunk \/ C_Close \/ C_SaveRename \/ C_SaveIOError
    \/ C_Crash \/ C_Get \/ C_Clear \/ C_Restart

\* ======================================================= RateLimiter
MaxAcquire == 4      \* acquire calls per behaviour
MaxBurst   == 2      \* burst_size is 1 .. MaxBurst
MaxPeriod  == 2      \* 1 / requests_per_second is 1 .. MaxPeriod clock ticks
MaxGap     == 2      \* ticks the caller lets pass before a call

\* Time is counted in clock ticks and tokens in the ticks it takes to refill
\* them: one token is `period` ticks' worth, so that
\* time_passed * requests_per_second tokens is time_passed ticks' worth.
OneToken == period
Capacity == burst_size * period

\* lines 64-67: min(burst_size, tokens + time_passed * requests_per_second)
ReplenishNoCap(t, time_passed) == t + time_passed
Replenish(t, time_passed) == Min(Capacity, t + time_passed)

\* line 73: (1 - tokens) / requests_per_second, in ticks
WaitTime(t) == OneToken - t

RIdle ==
    /\ burst_size = 1 /\ period = 1 /\ tokens = 1 /\ last_update = 0 /\ clock = 0
    /\ l_pc = "idle" /\ wait_time = 0 /\ total_requests = 0 /\ spaced = FALSE

\* __init__, lines 43-50: a full bucket.
RInit ==
    /\ burst_size \in 1..MaxBurst /\ period \in 1..MaxPeriod
    /\ tokens = burst_size * period
    /\ last_update = 0 /\ clock = 0
    /\ l_pc = "idle" /\ wait_time = 0 /\ total_requests = 0 /\ spaced = FALSE

\* acquire, lines 60-78 and 80-83: the caller calls `gap` ticks after the
\* previous call returned; the bucket is replenished; with a token available
\* it is taken and the call returns, else the call starts to sleep.
L_Acquire ==
    /\ l_pc = "idle" /\ total_requests < MaxAcquire
    /\ \E gap \in 0..MaxGap :
         /\ clock' = clock + gap
         /\ spaced' = (spaced \/ gap > 0)
         /\ LET t == Replenish(tokens, clock' - last_update) IN
              IF t < OneToken
              THEN /\ wait_time' = WaitTime(t)
                   /\ tokens' = t
                   /\ l_pc' = "sleeping"
                   /\ total_requests' = total_requests
              ELSE /\ wait_time' = 0
                   /\ tokens' = t - OneToken
                   /\ l_pc' = "idle"
                   /\ total_requests' = total_requests + 1
    /\ last_update' = clock'
    /\ UNCHANGED <<avars, svars, cvars, yvars, hvars, mvars, burst_size, period>>

\* lines 74-75 and 80-83: the sleep is over, the bucket is set to empty and
\* the call returns.
L_Wake ==
    /\ l_pc = "sleeping"
    /\ clock' = clock + wait_time
    /\ tokens' = 0
    /\ total_requests' = total_requests + 1
    /\ l_pc' = "idle"
    /\ UNCHANGED <<avars, svars, cvars, yvars, hvars, mvars, burst_size, period,
                   last_update, wait_time, spaced>>

RateNext == L_Acquire \/ L_Wake

\* ================================================ RetryableHTTPClient.get
MaxAttempts == 3     \* retry_attempts is 1 .. MaxAttempts

\* What one HTTP request can end in: a response with a status code, or an
\* httpx.RequestError (connection error, timeout), written 0.
RequestError == 0
Statuses == {200, 404, 429, 500, 501, 503}
Answers == Statuses \cup {RequestError}

\* line 166: the default of response.headers.get('Retry-After', 60)
RetryAfter == 60

\* line 104: retry_backoff_factor
BackoffFactor == 2

RECURSIVE Power(_, _)
Power(b, e) == IF e = 0 THEN 1 ELSE b * Power(b, e - 1)

\* lines 177 and 189: retry_backoff_factor ** attempt
Backoff(a) == Power(BackoffFactor, a)

\* The Retry-After header of an answer: absent, or decimal digits.
NoHeader == <<>>
RetryAfterHeaders == {NoHeader, Digits(7), Digits(12)}

\* line 166: int(response.headers.get('Retry-After', 60))
RetryAfterBackoff(header) == Backoff(attempt)
RetryAfterSeconds(header) ==
    IF header = NoHeader THEN RetryAfter ELSE ParseInt(header)

\* line 176: the status codes that are retried
RetriedAll(status) == status >= 400
Retried(status) == status \in {500, 502, 503, 504}

\* line 156: for attempt in range(self.retry_attempts)
InRangeInclusive(a) == a <= retry_attempts
InRange(a) == a < retry_attempts

HIdle ==
    /\ retry_attempts = 1 /\ h_pc = "idle" /\ attempt = 0 /\ attempts = 0
    /\ acquires = 0 /\ sleeps = <<>> /\ responses = <<>> /\ headers = <<>>
    /\ total_retries = 0 /\ total_errors = 0

\* __init__, lines 116-125
HInit ==
    /\ retry_attempts \in 1..MaxAttempts
    /\ h_pc = "idle" /\ attempt = 0 /\ attempts = 0
    /\ acquires = 0 /\ sleeps = <<>> /\ responses = <<>> /\ headers = <<>>
    /\ total_retries = 0 /\ total_errors = 0

\* line 154: get() begins with rate_limiter.acquire().
H_Call ==
    /\ h_pc = "idle"
    /\ acquires' = acquires + 1
    /\ attempt' = 0
    /\ h_pc' = "loop"
    /\ UNCHANGED <<avars, svars, cvars, yvars, rvars, mvars, retry_attempts, attempts,
                   sleeps, responses, headers, total_retries, total_errors>>

\* line 156: the next turn of the loop; lines 199-200 when the range is used
\* up: total_errors is counted and the terminal failure is raised.
H_Loop ==
    /\ h_pc = "loop"
    /\ h_pc' = IF InRange(attempt) THEN "request" ELSE "failed"
    /\ total_errors' = IF InRange(attempt) THEN total_errors ELSE total_errors + 1
    /\ UNCHANGED <<avars, svars, cvars, yvars, rvars, mvars, retry_attempts, attempt,
                   attempts, acquires, sleeps, responses, headers, total_retries>>

\* The sleep and `continue` of a retry (lines 168-170, 182-184, 194-196).
CountNoRetry(n) == n
CountRetry(n) == n + 1

SleepAndContinue(duration) ==
    /\ sleeps' = Append(sleeps, duration)
    /\ total_retries' = CountRetry(total_retries)
    /\ attempt' = attempt + 1
    /\ h_pc' = "loop"

\* The call ends: the response is returned (line 173) or the error raised
\* (lines 185, 197).
Ends(how) ==
    /\ h_pc' = how
    /\ UNCHANGED <<sleeps, total_retries, attempt>>

\* lines 158-197: one HTTP request and what the loop body does with its answer.
H_Request ==
    /\ h_pc = "request"
    /\ \E r \in Answers, header \in RetryAfterHeaders :
         /\ r # 429 => header = NoHeader
         /\ responses' = Append(responses, r)
         /\ headers' = Append(headers, header)
         /\ attempts' = attempts + 1
         /\ IF r = RequestError
            THEN IF attempt < retry_attempts - 1
                 THEN SleepAndContinue(Backoff(attempt))
                 ELSE Ends("raised")
            ELSE IF r = 429
            THEN SleepAndContinue(RetryAfterSeconds(header))
            ELSE IF r < 400
            THEN Ends("returned")
            ELSE IF Retried(r)
            THEN SleepAndContinue(Backoff(attempt))
            ELSE Ends("raised")
    /\ UNCHANGED <<avars, svars, cvars, yvars, rvars, mvars, retry_attempts, acquires,
                   total_errors>>

HttpNext == H_Call \/ H_Loop \/ H_Request

\* ================================================ main and run_ingestion
\* lines 80-84: the sources in the order they are run
SourceList == <<"arxiv", "pubmed", "openalex">>

\* What a source's adapter does when it is run: ingest() returns a result
\* with an empty errors list, returns a result with errors recorded in it,
\* or the constructor or ingest() raises.
Behaviours == {"clean", "errors", "init_raises", "ingest_raises"}

NoEntry == [kind |-> "absent", errors |-> 0, records_ingested |-> 0]

\* The result dict ingest() returns (e.g. pubmed.py lines 273-279, 364).
SourceResult(b) ==
    [kind |-> "result",
     errors |-> IF b = "errors" THEN 1 ELSE 0,
     records_ingested |-> IF b = "errors" THEN 0 ELSE 1]

\* line 112: {'error': str(e)}
ErrorEntry == [kind |-> "error", errors |-> 0, records_ingested |-> 0]

\* The loop goes on with the next source after the handler (lines 108-113).
AbortRun(i) == Len(SourceList) + 1
AfterError(i) == i + 1

MIdle ==
    /\ enabled = [s \in Sources |-> FALSE]
    /\ behaviour = [s \in Sources |-> "clean"]
    /\ m_i = 1 /\ m_pc = "exited"
    /\ m_sources = [s \in Sources |-> NoEntry]
    /\ m_errors = 0 /\ total_records = 0 /\ exit_status = 0

\* main lines 171-190 and run_ingestion lines 64-84.
MInit ==
    /\ enabled \in [Sources -> BOOLEAN]
    /\ behaviour \in [Sources -> Behaviours]
    /\ m_i = 1 /\ m_pc = "for"
    /\ m_sources = [s \in Sources |-> NoEntry]
    /\ m_errors = 0 /\ total_records = 0 /\ exit_status = -1

\* lines 86-89: a disabled source is skipped.
M_Skip ==
    /\ m_pc = "for" /\ m_i <= Len(SourceList) /\ ~enabled[SourceList[m_i]]
    /\ m_i' = m_i + 1
    /\ UNCHANGED <<avars, svars, cvars, yvars, rvars, hvars, enabled, behaviour, m_pc,
                   m_sources, m_errors, total_records, exit_status>>

\* lines 93-98: the adapter is constructed, or its constructor raises.
M_Construct ==
    /\ m_pc = "for" /\ m_i <= Len(SourceList) /\ enabled[SourceList[m_i]]
    /\ m_pc' = IF behaviour[SourceList[m_i]] = "init_raises" THEN "except" ELSE "ingest"
    /\ UNCHANGED <<avars, svars, cvars, yvars, rvars, hvars, enabled, behaviour, m_i,
                   m_sources, m_errors, total_records, exit_status>>

\* lines 100-106: ingest() returns and its result is stored, or it raises.
M_Ingest ==
    /\ m_pc = "ingest"
    /\ LET s == SourceList[m_i] IN
         IF behaviour[s] = "ingest_raises"
         THEN /\ m_pc' = "except"
              /\ UNCHANGED <<m_sources, total_records, m_i>>
         ELSE /\ m_sources' = [m_sources EXCEPT ![s] = SourceResult(behaviour[s])]
              /\ total_records' = total_records + SourceResult(behaviour[s]).records_ingested
              /\ m_i' = m_i + 1
              /\ m_pc' = "for"
    /\ UNCHANGED <<avars, svars, cvars, yvars, rvars, hvars, enabled, behaviour,
                   m_errors, exit_status>>

\* lines 108-113: the error is recorded for the source.
M_Except ==
    /\ m_pc = "except"
    /\ m_errors' = m_errors + 1
    /\ m_sources' = [m_sources EXCEPT ![SourceList[m_i]] = ErrorEntry]
    /\ m_i' = AfterError(m_i)
    /\ m_pc' = "for"
    /\ UNCHANGED <<avars, svars, cvars, yvars, rvars, hvars, enabled, behaviour,
                   total_records, exit_status>>

\* lines 115-116 and 194-195: run_ingestion returns, the summary is printed.
M_Return ==
    /\ m_pc = "for" /\ m_i > Len(SourceList)
    /\ m_pc' = "summary"
    /\ UNCHANGED <<avars, svars, cvars, yvars, rvars, hvars, enabled, behaviour, m_i,
                   m_sources, m_errors, total_records, exit_status>>

\* lines 197-198: exit status 1 when results['errors'] is not empty; else
\* main returns and the status is 0.
M_Exit ==
    /\ m_pc = "summary"
    /\ exit_status' = IF m_errors > 0 THEN 1 ELSE 0
    /\ m_pc' = "exited"
    /\ UNCHANGED <<avars, svars, cvars, yvars, rvars, hvars, enabled, behaviour, m_i,
                   m_sources, m_errors, total_records>>

\* lines 200-202: KeyboardInterrupt while the run is on.
M_Interrupt ==
    /\ m_pc \in {"for", "ingest", "except"}
    /\ exit_status' = 130
    /\ m_pc' = "exited"
    /\ UNCHANGED <<avars, svars, cvars, yvars, rvars, hvars, enabled, behaviour, m_i,
                   m_sources, m_errors, total_records>>

MainNext ==
    \/ M_Skip \/ M_Construct \/ M_Ingest \/ M_Except \/ M_Return \/ M_Exit
    \/ M_Interrupt

\* ============================================ the native id of a record
MaxEntries == 2      \* entries on the page

\* The id field of an upstream entry (atom:id, PMID, 'id'): absent; present
\* without a value (an XML element with no text, a JSON null); or a text,
\* written as the pieces it is made of (the empty text has none).
IdMissing == [kind |-> "missing", text |-> <<>>]
IdNull == [kind |-> "null", text |-> <<>>]
IdText(t) == [kind |-> "text", text |-> t]

ArxivAbs == "http://arxiv.org/abs/"
OpenAlexUrl == "https://openalex.org/"

UpstreamIds(a) ==
    CASE a = "arxiv" ->
            {IdMissing, IdNull, IdText(<<ArxivAbs>>),
             IdText(<<ArxivAbs, "2301.00001v1">>)}
      [] a = "pubmed" -> {IdMissing, IdNull, IdText(<<"31452104">>)}
      [] a = "openalex" ->
            {IdMissing, IdNull, IdText(<<>>),
             IdText(<<OpenAlexUrl, "W2741809807">>)}

\* Python truthiness of an id value: not None and not ''.
Truthy(v) == v.kind = "text" /\ v.text # <<>>

Kept(id) == [kept |-> TRUE, id |-> id]
Dropped == [kept |-> FALSE, id |-> IdNull]

\* arxiv.py lines 81-87: the id is what follows abs/ in the text of atom:id,
\* None without the element, without text or without a match; line 153:
\* the record is kept when its arxiv_id is truthy.
ParseEntry(field) ==
    LET arxiv_id == IF Truthy(field) /\ Len(field.text) >= 2 /\ field.text[1] = ArxivAbs
                    THEN IdText(Tail(field.text)) ELSE IdNull
    IN IF Truthy(arxiv_id) THEN Kept(arxiv_id) ELSE Dropped

\* pubmed.py lines 89-92: None without a PMID element, else pmid is the
\* element's text; line 216: the record is kept when the dict is not empty.
ParseArticle(field) ==
    IF field.kind = "missing" THEN Dropped
    ELSE Kept(IF field.kind = "text" THEN IdText(field.text) ELSE IdNull)

\* openalex.py line 93: work.get('id', '').replace('https://openalex.org/', '')
\* ('' without the key; None has no replace and the work is skipped by the
\* handler of lines 269-271); line 264: every parsed record is kept.
ParseWork(field) ==
    IF field.kind = "null" THEN Dropped
    ELSE Kept(IdText(SelectSeq(field.text, LAMBDA piece : piece # OpenAlexUrl)))

Parse(a, field) ==
    CASE a = "arxiv" -> ParseEntry(field)
      [] a = "pubmed" -> ParseArticle(field)
      [] a = "openalex" -> ParseWork(field)

EIdle ==
    /\ e_adapter = "arxiv" /\ entries = <<>> /\ e_i = 0
    /\ e_records = <<>> /\ e_written = <<>> /\ e_pc = "done"

EInit ==
    /\ e_adapter \in Sources
    /\ entries \in UNION {[1..n -> UpstreamIds(e_adapter)] : n \in 0..MaxEntries}
    /\ e_i = 0 /\ e_records = <<>> /\ e_written = <<>> /\ e_pc = "parsing"

notE == <<avars, svars, cvars, rvars, hvars, mvars, tvars, dvars, zvars>>

\* The parse loop (arxiv.py 149-156, pubmed.py 214-217, openalex.py 254-271):
\* the next entry is parsed and its record appended if it is kept.
E_Parse ==
    /\ e_pc = "parsing" /\ e_i < Len(entries)
    /\ LET r == Parse(e_adapter, entries[e_i + 1]) IN
         e_records' = IF r.kept THEN Append(e_records, r.id) ELSE e_records
    /\ e_i' = e_i + 1
    /\ UNCHANGED <<notE, e_adapter, entries, e_written, e_pc>>

\* `if records:` write_records(source, records, batch_id)
\* (arxiv.py 304-307, pubmed.py 322-325, openalex.py 273-276).
E_Write ==
    /\ e_pc = "parsing" /\ e_i = Len(entries)
    /\ e_written' = e_records
    /\ e_pc' = "done"
    /\ UNCHANGED <<notE, e_adapter, entries, e_i, e_records>>

ParseNext == E_Parse \/ E_Write

\* ================================== RateLimiter.acquire called by several tasks
MaxTasks == 3        \* tasks, each calling acquire() once

Tasks == 1..MaxTasks
NoTask == 0

\* line 62: `async with self._lock` lets a task in when no task holds the lock
LockFreeAlways == TRUE
LockFree == lock = NoTask

TIdle ==
    /\ t_pc = [t \in Tasks |-> "idle"] /\ lock = NoTask
    /\ t_wait = [t \in Tasks |-> 0]

TInit == TIdle

notT == <<avars, svars, cvars, hvars, mvars, evars, dvars, zvars>>

\* A task calls acquire() and reaches `async with self._lock` (line 62).
T_Call(t) ==
    /\ t_pc[t] = "idle"
    /\ t_pc' = [t_pc EXCEPT ![t] = "waiting"]
    /\ UNCHANGED <<notT, rvars, lock, t_wait>>

\* lines 62-83 up to the first await inside the block: the task takes the
\* lock, some time having passed; the bucket is replenished; with a token
\* available it is taken, the call is counted, the lock released and the
\* call returns, else the task starts to sleep, holding the lock.
T_Enter(t) ==
    /\ t_pc[t] = "waiting" /\ LockFree
    /\ \E gap \in 0..MaxGap :
         /\ clock' = clock + gap
         /\ LET tk == Replenish(tokens, clock' - last_update) IN
              IF tk < OneToken
              THEN /\ t_wait' = [t_wait EXCEPT ![t] = WaitTime(tk)]
                   /\ tokens' = tk
                   /\ t_pc' = [t_pc EXCEPT ![t] = "sleeping"]
                   /\ lock' = t
                   /\ total_requests' = total_requests
              ELSE /\ t_wait' = t_wait
                   /\ tokens' = tk - OneToken
                   /\ t_pc' = [t_pc EXCEPT ![t] = "returned"]
                   /\ lock' = lock
                   /\ total_requests' = total_requests + 1
    /\ last_update' = clock'
    /\ UNCHANGED <<notT, burst_size, period, l_pc, wait_time, spaced>>

\* lines 74-83: the sleep is over; the bucket is set to empty, the call is
\* counted, the lock released and the call returns.
T_Wake(t) ==
    /\ t_pc[t] = "sleeping"
    /\ clock' = clock + t_wait[t]
    /\ tokens' = 0
    /\ total_requests' = total_requests + 1
    /\ lock' = IF lock = t THEN NoTask ELSE lock
    /\ t_pc' = [t_pc EXCEPT ![t] = "returned"]
    /\ UNCHANGED <<notT, burst_size, period, last_update, l_pc, wait_time, spaced,
                   t_wait>>

TaskNext == \E t \in Tasks : T_Call(t) \/ T_Enter(t) \/ T_Wake(t)

\* ======================= two callers of one StorageManager and one
\* CheckpointManager (threads, tasks or processes on the same directories)
Callers == {1, 2}

\* What a caller does: write_records(source, records, batch_id), then
\* save_checkpoint(source, ...), then clear_checkpoint(source) or not.
CallerArgs ==
    [source : StorageSources, batch_id : BatchIds,
     records : {RecordList(RecA, k) : k \in 1..MaxK}, clears : BOOLEAN]

\* The checkpoint a caller saves after its batch.
CheckpointOf(a) ==
    Checkpoint(a.source, Digits(Len(a.records)), Len(a.records))

FilePathOf(a) == GetFilePath(a.source, a.batch_id)
TempPathOf(a) == TempPath(FilePathOf(a))
CkptPathOf(a) == GetCheckpointPath(a.source)
CkptTempOf(a) == CkptTempPath(CkptPathOf(a))

\* The lines of a batch file written in full for a caller.
LinesOf(a) ==
    [i \in 1..Len(a.records) |-> Dump(Stamp(a.records[i], a.source, a.batch_id))]

DIdle ==
    /\ d_args = [j \in Callers |->
                    [source |-> "pubmed", batch_id |-> "batch_00000000",
                     records |-> <<>>, clears |-> FALSE]]
    /\ d_pc = [j \in Callers |-> "done"] /\ d_i = [j \in Callers |-> 0]
    /\ d_fs = [p \in {} |-> 0] /\ d_cfs = [p \in {} |-> 0]
    /\ d_cache = [s \in StorageSources |-> NoCheckpoint]

\* The two calls have distinct (source, batch_id).
DInit ==
    /\ d_args \in [Callers -> CallerArgs]
    /\ <<d_args[1].source, d_args[1].batch_id>> # <<d_args[2].source, d_args[2].batch_id>>
    /\ d_pc = [j \in Callers |-> "start"] /\ d_i = [j \in Callers |-> 0]
    /\ d_fs = [p \in {} |-> 0] /\ d_cfs = [p \in {} |-> 0]
    /\ d_cache = [s \in StorageSources |-> NoCheckpoint]

notD == <<avars, svars, cvars, rvars, hvars, mvars, evars, tvars, zvars>>

\* What has been written through a file handle opened on path.
LinesAt(f, path) == IF path \in DOMAIN f THEN f[path].lines ELSE <<>>

\* storage.py lines 102-110: the temp file is opened (created or truncated).
D_Open(j) ==
    /\ d_pc[j] = "start"
    /\ d_fs' = Put(d_fs, TempPathOf(d_args[j]), File(<<>>, FALSE))
    /\ d_pc' = [d_pc EXCEPT ![j] = "writing"]
    /\ UNCHANGED <<notD, d_args, d_i, d_cfs, d_cache>>

\* lines 111-118: the next record is stamped and written as a line.
D_WriteRecord(j) ==
    /\ d_pc[j] = "writing" /\ d_i[j] < Len(d_args[j].records)
    /\ LET a == d_args[j] IN
         d_fs' = Put(d_fs, TempPathOf(a),
                     File(Append(LinesAt(d_fs, TempPathOf(a)),
                                 Dump(Stamp(a.records[d_i[j] + 1], a.source, a.batch_id))),
                          FALSE))
    /\ d_i' = [d_i EXCEPT ![j] = d_i[j] + 1]
    /\ UNCHANGED <<notD, d_args, d_pc, d_cfs, d_cache>>

\* The with block ends: the temp file is flushed and closed.
D_Close(j) ==
    /\ d_pc[j] = "writing" /\ d_i[j] = Len(d_args[j].records)
    /\ LET a == d_args[j] IN
         d_fs' = Put(d_fs, TempPathOf(a), File(LinesAt(d_fs, TempPathOf(a)), TRUE))
    /\ d_pc' = [d_pc EXCEPT ![j] = "closed"]
    /\ UNCHANGED <<notD, d_args, d_i, d_cfs, d_cache>>

\* lines 121-124: rename to the final path; lines 126-130 when the temp file
\* is not there: the rename raises and write_records re-raises.
D_Rename(j) ==
    /\ d_pc[j] = "closed"
    /\ LET a == d_args[j] IN
         IF TempPathOf(a) \in DOMAIN d_fs
         THEN /\ d_fs' = RenameFile(d_fs, TempPathOf(a), FilePathOf(a))
              /\ d_pc' = [d_pc EXCEPT ![j] = "written"]
         ELSE /\ d_fs' = d_fs
              /\ d_pc' = [d_pc EXCEPT ![j] = "done"]
    /\ UNCHANGED <<notD, d_args, d_i, d_cfs, d_cache>>

\* checkpoint.py lines 80-94: the checkpoint is written to its temp file.
D_SaveTemp(j) ==
    /\ d_pc[j] = "written"
    /\ d_cfs' = Put(d_cfs, CkptTempOf(d_args[j]), Encode(CheckpointOf(d_args[j])))
    /\ d_pc' = [d_pc EXCEPT ![j] = "save_rename"]
    /\ UNCHANGED <<notD, d_args, d_i, d_fs, d_cache>>

\* lines 95-97: rename over the checkpoint path, then the cache entry;
\* lines 100-102 when the temp file is not there.
D_SaveRename(j) ==
    /\ d_pc[j] = "save_rename"
    /\ LET a == d_args[j] IN
         IF CkptTempOf(a) \in DOMAIN d_cfs
         THEN /\ d_cfs' = RenameFile(d_cfs, CkptTempOf(a), CkptPathOf(a))
              /\ d_cache' = [d_cache EXCEPT ![a.source] = CheckpointOf(a)]
              /\ d_pc' = [d_pc EXCEPT ![j] = IF a.clears THEN "clear" ELSE "done"]
         ELSE /\ UNCHANGED <<d_cfs, d_cache>>
              /\ d_pc' = [d_pc EXCEPT ![j] = "done"]
    /\ UNCHANGED <<notD, d_args, d_i, d_fs>>

\* clear_checkpoint, lines 111-117: the file is unlinked if it exists and
\* the cache entry dropped.
D_Clear(j) ==
    /\ d_pc[j] = "clear"
    /\ LET a == d_args[j] IN
         /\ d_cfs' = IF CkptPathOf(a) \in DOMAIN d_cfs
                      THEN Remove(d_cfs, CkptPathOf(a)) ELSE d_cfs
         /\ d_cache' = [d_cache EXCEPT ![a.source] = NoCheckpoint]
    /\ d_pc' = [d_pc EXCEPT ![j] = "done"]
    /\ UNCHANGED <<notD, d_args, d_i, d_fs>>

SharedNext ==
    \E j \in Callers :
        \/ D_Open(j) \/ D_WriteRecord(j) \/ D_Close(j) \/ D_Rename(j)
        \/ D_SaveTemp(j) \/ D_SaveRename(j) \/ D_Clear(j)

\* ====================================================== _get_year_ranges
MaxYearRecords == 160     \* max_records is 1 .. MaxYearRecords, or 1000

GIdle == g_max_records = 1 /\ g_i = NumBins /\ g_result = <<>>

\* year balancing enabled, the default start and end years: four valid bins
GInit ==
    /\ g_max_records \in (1..MaxYearRecords) \cup {1000}
    /\ g_i = 0 /\ g_result = <<>>

notZ == <<avars, svars, cvars, rvars, hvars, mvars, evars, tvars, dvars>>

\* lines 197-199: one turn of the loop over the valid bins
G_Bin ==
    /\ g_i < NumBins /\ Len(g_result) = g_i
    /\ g_result' = Append(g_result, BinTarget(g_max_records, g_i + 1))
    /\ g_i' = g_i + 1
    /\ UNCHANGED <<notZ, bvars, qvars, g_max_records>>

YearNext == G_Bin

\* ================================================== _reconstruct_abstract
MaxPos == 2          \* positions are 0 .. MaxPos
MaxPositions == 2    \* positions listed for one word

Words == {"a", "b"}

\* The argument: None, or a dict word -> list of positions, as its items in
\* insertion order.
NoIndex == [given |-> FALSE, items |-> <<>>]
Index(items) == [given |-> TRUE, items |-> items]
PositionLists == UNION {[1..n -> 0..MaxPos] : n \in 0..MaxPositions}
Items ==
    {<<>>}
    \cup {<<[word |-> w, positions |-> ps]>> : w \in Words, ps \in PositionLists}
    \cup UNION {{<<[word |-> w, positions |-> ps], [word |-> v, positions |-> qs]>> :
                    v \in Words \ {w}, ps \in PositionLists, qs \in PositionLists} :
                 w \in Words}
Indexes == {NoIndex} \cup {Index(it) : it \in Items}

\* The value returned: None or a string, the string as the words and the
\* separators it is made of.
None == [none |-> TRUE, text |-> <<>>]
Str(text) == [none |-> FALSE, text |-> text]

\* lines 179-182: the (pos, word) pairs, item by item, position by position
RECURSIVE Flatten(_)
Flatten(items) ==
    IF items = <<>> THEN <<>>
    ELSE [i \in 1..Len(items[1].positions) |-> <<items[1].positions[i], items[1].word>>]
         \o Flatten(Tail(items))

\* line 185: list.sort(key=lambda x: x[0]), a stable sort by position
RECURSIVE InsertByPos(_, _)
InsertByPos(sorted, pair) ==
    IF sorted = <<>> THEN <<pair>>
    ELSE IF sorted[Len(sorted)][1] <= pair[1] THEN Append(sorted, pair)
    ELSE Append(InsertByPos(SubSeq(sorted, 1, Len(sorted) - 1), pair),
                sorted[Len(sorted)])

RECURSIVE SortByPos(_)
Unsorted(pairs) == pairs
SortByPos(pairs) ==
    IF pairs = <<>> THEN <<>>
    ELSE InsertByPos(SortByPos(SubSeq(pairs, 1, Len(pairs) - 1)), pairs[Len(pairs)])

\* line 186: ' '.join(word for _, word in word_positions)
RECURSIVE Join(_)
Join(pairs) ==
    IF pairs = <<>> THEN <<>>
    ELSE IF Len(pairs) = 1 THEN <<pairs[1][2]>>
    ELSE <<pairs[1][2], " ">> \o Join(Tail(pairs))

BIdle ==
    /\ b_index = NoIndex /\ b_pc = "returned" /\ word_positions = <<>> /\ b_out = None

BInit ==
    /\ b_index \in Indexes
    /\ b_pc = "start" /\ word_positions = <<>> /\ b_out = None

\* lines 174-175: `if not inverted_index: return None`
B_Test ==
    /\ b_pc = "start"
    /\ b_pc' = IF ~b_index.given \/ b_index.items = <<>> THEN "returned" ELSE "build"
    /\ UNCHANGED <<notZ, gvars, qvars, b_index, word_positions, b_out>>

\* lines 179-182
B_Build ==
    /\ b_pc = "build"
    /\ word_positions' = Flatten(b_index.items)
    /\ b_pc' = "sort"
    /\ UNCHANGED <<notZ, gvars, qvars, b_index, b_out>>

\* line 185
B_Sort ==
    /\ b_pc = "sort"
    /\ word_positions' = SortByPos(word_positions)
    /\ b_pc' = "join"
    /\ UNCHANGED <<notZ, gvars, qvars, b_index, b_out>>

\* line 186
B_Join ==
    /\ b_pc = "join"
    /\ b_out' = Str(Join(word_positions))
    /\ b_pc' = "returned"
    /\ UNCHANGED <<notZ, gvars, qvars, b_index, word_positions>>

AbstractNext == B_Test \/ B_Build \/ B_Sort \/ B_Join

\* ============================== the two requests of a PubMed loop iteration
MaxIter == 2         \* loop iterations per behaviour
MaxIds == 2          \* Id elements in a search response

\* The Id elements of an ESearch response: texts, the empty text included.
IdTexts == {"", "31452104", "31452105"}
SearchResponses == UNION {[1..n -> IdTexts] : n \in 0..MaxIds}

\* pubmed.py line 77: the texts of the Id elements that have one
ParseSearchResponse(raw) == SelectSeq(raw, LAMBDA t : t # "")

\* line 254: ','.join(pmids), as the ids and the commas between them
RECURSIVE CommaJoin(_)
CommaJoinReversed(ids) ==
    [i \in 1..(2 * Len(ids) - 1) |->
        IF i % 2 = 1 THEN ids[Len(ids) + 1 - (i + 1) \div 2] ELSE ","]
CommaJoin(ids) ==
    IF ids = <<>> THEN <<>>
    ELSE IF Len(ids) = 1 THEN <<ids[1]>>
    ELSE <<ids[1], ",">> \o CommaJoin(Tail(ids))

Request(kind, ids, state) == [kind |-> kind, ids |-> ids, state |-> state]

\* The last request issued gets its outcome.
Outcome(ids, state) ==
    [requests EXCEPT ![Len(requests)] = Request(requests[Len(requests)].kind, ids, state)]

QIdle == q_pc = "done" /\ q_iter = 0 /\ pmids = <<>> /\ requests = <<>>

QInit == q_pc = "loop" /\ q_iter = 0 /\ pmids = <<>> /\ requests = <<>>

\* lines 300-304: the head of the loop; the ceiling ends it.
Q_Loop ==
    /\ q_pc = "loop"
    /\ \/ q_iter < MaxIter /\ q_iter' = q_iter + 1 /\ q_pc' = "search"
       \/ q_iter' = q_iter /\ q_pc' = "done"
    /\ UNCHANGED <<notZ, gvars, bvars, pmids, requests>>

\* lines 308-309 and 243: the search request is sent.
Q_Search ==
    /\ q_pc = "search"
    /\ requests' = Append(requests, Request("search", <<>>, "pending"))
    /\ q_pc' = "searching"
    /\ UNCHANGED <<notZ, gvars, bvars, q_iter, pmids>>

\* lines 244 and 315-317: the search returns its id list; an empty list
\* ends the loop.
Q_SearchReturns ==
    /\ q_pc = "searching"
    /\ \E raw \in SearchResponses :
         /\ pmids' = ParseSearchResponse(raw)
         /\ requests' = Outcome(pmids', "returned")
         /\ q_pc' = IF pmids' = <<>> THEN "done" ELSE "fetch"
    /\ UNCHANGED <<notZ, gvars, bvars, q_iter>>

\* lines 320 and 252-263: the fetch request is sent with the id parameter.
Q_Fetch ==
    /\ q_pc = "fetch"
    /\ requests' = Append(requests, Request("fetch", CommaJoin(pmids), "pending"))
    /\ q_pc' = "fetching"
    /\ UNCHANGED <<notZ, gvars, bvars, q_iter, pmids>>

\* line 264, then lines 322-348: the fetch returns and the iteration ends.
Q_FetchReturns ==
    /\ q_pc = "fetching"
    /\ requests' = Outcome(requests[Len(requests)].ids, "returned")
    /\ q_pc' = "loop"
    /\ UNCHANGED <<notZ, gvars, bvars, q_iter, pmids>>

\* lines 350-356: either request raises; the handler goes on with the loop.
Q_Raises ==
    /\ q_pc \in {"searching", "fetching"}
    /\ requests' = Outcome(requests[Len(requests)].ids, "raised")
    /\ q_pc' = "loop"
    /\ UNCHANGED <<notZ, gvars, bvars, q_iter, pmids>>

TwoPhaseNext ==
    Q_Loop \/ Q_Search \/ Q_SearchReturns \/ Q_Fetch \/ Q_FetchReturns \/ Q_Raises

ZIdle == GIdle /\ BIdle /\ QIdle

YIdle == EIdle /\ TIdle /\ DIdle /\ ZIdle

XIdle == RIdle /\ HIdle /\ MIdle /\ YIdle

Init == AInit /\ SIdle /\ CIdle /\ XIdle

Step ==
    \/ P_Begin \/ P_LoopCheck \/ P_Search \/ P_RequestFails \/ P_Fetch
    \/ P_Written \/ P_Advance \/ P_Except \/ P_Finish
    \/ O_Begin \/ O_LoopCheck \/ O_Request \/ O_RequestFails
    \/ O_Written \/ O_Advance \/ O_Except \/ O_Finish
    \/ A_Begin \/ A_Query \/ A_LoopCheck \/ A_Request \/ A_RequestFails
    \/ A_Written \/ A_Advance \/ A_Except \/ A_Finish
    \/ WriteTemp \/ WriteFails \/ WriteRename \/ SaveTemp \/ SaveFails \/ SaveRename

Next == Step \/ Crash \/ Rerun

Spec == Init /\ [][Next]_vars

\* The event loop keeps running the adapter's next step.
FairSpec == Init /\ [][Next]_vars /\ WF_vars(Step)

StorageInit == AIdle /\ SInit /\ CIdle /\ XIdle

StorageSpec == StorageInit /\ [][StorageNext]_vars

CkptInit == AIdle /\ SIdle /\ CInit /\ XIdle

CkptSpec == CkptInit /\ [][CkptNext]_vars

RateInit == AIdle /\ SIdle /\ CIdle /\ RInit /\ HIdle /\ MIdle /\ YIdle

RateSpec == RateInit /\ [][RateNext]_vars

HttpInit == AIdle /\ SIdle /\ CIdle /\ RIdle /\ HInit /\ MIdle /\ YIdle

HttpSpec == HttpInit /\ [][HttpNext]_vars

MainInit == AIdle /\ SIdle /\ CIdle /\ RIdle /\ HIdle /\ MInit /\ YIdle

MainSpec == MainInit /\ [][MainNext]_vars

ParseInit ==
    /\ AIdle /\ SIdle /\ CIdle /\ RIdle /\ HIdle /\ MIdle /\ EInit /\ TIdle /\ DIdle
    /\ ZIdle

ParseSpec == ParseInit /\ [][ParseNext]_vars

TaskInit ==
    /\ AIdle /\ SIdle /\ CIdle /\ RInit /\ HIdle /\ MIdle /\ EIdle /\ TInit /\ DIdle
    /\ ZIdle

TaskSpec == TaskInit /\ [][TaskNext]_vars

SharedInit ==
    /\ AIdle /\ SInit /\ CIdle /\ RIdle /\ HIdle /\ MIdle /\ EIdle /\ TIdle /\ DInit
    /\ ZIdle

SharedSpec == SharedInit /\ [][SharedNext]_vars

\* Every layer of the first three groups at rest.
Rest == AIdle /\ SIdle /\ CIdle /\ RIdle /\ HIdle /\ MIdle /\ EIdle /\ TIdle /\ DIdle

YearInit == Rest /\ GInit /\ BIdle /\ QIdle

YearSpec == YearInit /\ [][YearNext]_vars

AbstractInit == Rest /\ GIdle /\ BInit /\ QIdle

AbstractSpec == AbstractInit /\ [][AbstractNext]_vars

TwoPhaseInit == Rest /\ GIdle /\ BIdle /\ QInit

TwoPhaseSpec == TwoPhaseInit /\ [][TwoPhaseNext]_vars

\* ===================================================== claims on the adapters
SavePcs == {"save_tmp", "save_rename"}

\* C1: in every adapter a checkpoint save starts only when the batch it
\* records is at its final path (renamed, no temp file left); each save event
\* directly follows the write event of the same fetched page and the events
\* are in fetch order; the checkpoint on disk was saved for a batch on disk.
C1_WriteBeforeSave ==
    /\ pc \in SavePcs =>
        /\ FileKey(Source, batch_id) \in DOMAIN files
        /\ FileKey(Source, batch_id) \notin temps
    /\ \A i \in 1..Len(log) :
        log[i][1] = "save" =>
            i > 1 /\ log[i - 1][1] = "write" /\ log[i - 1][2] = log[i][2]
    /\ \A i, j \in 1..Len(log) : i < j => log[i][2] <= log[j][2]
    /\ ckptFile[Source].exists => FileKey(Source, ckptOf) \in DOMAIN files

\* A run that is saving the checkpoint of its second batch.
C1_Witness == pc = "save_rename" /\ Len(log) = 4

\* C2: the first request of a run that found a checkpoint uses the
\* checkpoint's cursor.
C2_ResumeFromCheckpoint ==
    first_req # -1 /\ start_ckpt.exists => first_req = ParseInt(start_ckpt.cursor)

\* A batch file covering upstream position i is at its final path.
Covered(i) ==
    \E k \in DOMAIN files :
        /\ k[1] = "pubmed"
        /\ files[k].first <= i /\ i < files[k].first + files[k].len

\* The cursor a new pubmed run would resume from.
ResumeCursor == StartCursor(ckptFile["pubmed"], 0)

\* C3 as stated: pubmed without page errors: a resumed run re-fetches at
\* most one batch that was already written, and every upstream position
\* before the cursor on disk is in a batch file on disk.
C3_EveryPageOnDisk ==
    adapter = "pubmed" /\ failures = 0 /\ ~down =>
        /\ refetched <= 1
        /\ \A i \in 0..(ResumeCursor - 1) : Covered(i)

\* C3 amended: the same, for the positions whose entry parses to a record
\* (a page none of whose entries parses is not written).
C3_NoRecordLost ==
    adapter = "pubmed" /\ failures = 0 /\ ~down =>
        /\ refetched <= 1
        /\ \A i \in 0..(ResumeCursor - 1) : i \notin bad => Covered(i)

\* A resumed pubmed run has fetched again the batch the stopped run had written.
C3_Witness ==
    /\ adapter = "pubmed" /\ failures = 0 /\ runs > 0
    /\ start_ckpt.exists /\ refetched = 1 /\ pc = "write_tmp"

\* C4: when ingest() has returned without errors no checkpoint is left (file
\* or cache); when it has returned with errors the saved checkpoint is there.
C4_ClearedOnlyOnSuccess ==
    pc = "done" =>
        /\ errors = 0 => ~ckptFile[Source].exists /\ ~cache[Source].exists
        /\ errors > 0 /\ (start_ckpt.exists \/ \E i \in 1..Len(log) : log[i][1] = "save")
              => ckptFile[Source].exists

\* C5: records_ingested never exceeds max_records.
C5_CeilingRespected == records_ingested <= max_records

\* C6: every run of ingest() returns.
C6_IngestReturns == <>(pc = "done")

\* ===== claims on the storage manager (StorageSpec)
IsTemp(p) == p.name[Len(p.name)] = "tmp"

\* C7: at every moment, also during a write and after a crash in the middle
\* of one, every file that list_files returns is a completely written batch
\* and none of them is the temp file of a write, with and without compression.
C7_ListShowsOnlyComplete ==
    \A s \in StorageSources : \A p \in ListFiles(s) : ~IsTemp(p) /\ fs[p].closed

\* C8: when a write fails at some record, the exception reaches the caller,
\* the temp file is gone, and the final path holds exactly what it held before
\* the call; at no time is a partially written file at a final path.
C8_FailedWriteLeavesNoTrace ==
    /\ w_pc = "raised" =>
          /\ TempPathNow \notin DOMAIN fs
          /\ IF before.exists
             THEN FilePathNow \in DOMAIN fs /\ fs[FilePathNow] = before.file
             ELSE FilePathNow \notin DOMAIN fs
    /\ \A p \in DOMAIN fs : ~IsTemp(p) => fs[p].closed

\* A write over an earlier file failed after its first record.
C8_Witness ==
    /\ w_pc = "raised" /\ w_i >= 1 /\ before.exists
    /\ Len(before.file.lines) # w_i

Without(d, keys) == SelectSeq(d, LAMBDA item : item[1] \notin keys)
Get(d, k) == (CHOOSE i \in DOMAIN d : d[i][1] = k)
HasKey(d, k) == \E i \in DOMAIN d : d[i][1] = k

\* C9: a write of K >= 1 records returns K and leaves one file, at the final
\* path, of exactly K lines, each carrying _ingested_at, _source = source and
\* _batch_id = batch_id; reading the file gives the same K records in the
\* same order once the three fields are removed.
C9_WriteReadRoundTrip ==
    (w_pc = "returned" /\ Len(w_records) >= 1) =>
        /\ w_ret = Len(w_records)
        /\ FilePathNow \in DOMAIN fs
        /\ DOMAIN fs \ {FilePathNow} = dom_before \ {FilePathNow, TempPathNow}
        /\ Len(fs[FilePathNow].lines) = Len(w_records)
        /\ LET read == ReadRecords(FilePathNow) IN
            /\ Len(read) = Len(w_records)
            /\ \A i \in 1..Len(read) :
                /\ HasKey(read[i], "_ingested_at")
                /\ HasKey(read[i], "_source")
                /\ read[i][Get(read[i], "_source")][2] = w_source
                /\ HasKey(read[i], "_batch_id")
                /\ read[i][Get(read[i], "_batch_id")][2] = w_batch
                /\ Without(read[i], InjectedKeys) = w_records[i]

\* A write of two different records over an earlier file has returned.
C9_Witness ==
    /\ w_pc = "returned" /\ Len(w_records) >= 2 /\ w_ret = Len(w_records)
    /\ w_records[1] # w_records[2]
    /\ before.exists

\* ===== claims on the checkpoint manager (CkptSpec)
\* C10: however a save is interrupted (before, during or after the temp
\* write, before the rename), the final checkpoint file is either the
\* complete previous checkpoint or the complete new one, and a get in a fresh
\* process never returns a half-written checkpoint.
C10_SaveIsAtomic ==
    /\ \A s \in CkptSources :
          GetCheckpointPath(s) \in DOMAIN c_fs =>
              Complete(c_fs[GetCheckpointPath(s)])
    /\ c_args.exists => FreshGet(c_args.source) \in {c_prev, c_args}

\* A save over an earlier checkpoint was interrupted in the middle of the temp
\* write, and a get after it read the earlier checkpoint.
C10_Witness ==
    /\ c_pc = "idle" /\ c_args.exists /\ c_prev.exists /\ c_prev # c_args
    /\ SaveTempNow \in DOMAIN c_fs
    /\ Len(c_fs[SaveTempNow]) \in 1..(TextLen - 1)
    /\ c_got = c_prev

\* C11: a get after a completed save returns the saved source, cursor,
\* records_processed and metadata (an absent metadata argument is saved as the
\* empty dict), and a get after a clear returns nothing, in the process that
\* made the call and in a fresh process on the same directory.
C11_SaveGetClearRoundTrip ==
    (c_pc = "idle" /\ c_last.got) =>
        /\ c_last.op = "save" =>
              /\ c_got.exists
              /\ c_got.source = c_args.source
              /\ c_got.cursor = c_args.cursor
              /\ c_got.records_processed = c_args.records_processed
              /\ c_got.metadata = c_args.metadata
        /\ c_last.op = "clear" => ~c_got.exists

\* A fresh process has read back a checkpoint saved with metadata.
C11_Witness ==
    /\ c_pc = "idle" /\ c_last.got /\ c_last.op = "save"
    /\ ~c_cache[CHOOSE s \in CkptSources : s # c_last.source].exists
    /\ c_got.metadata # <<>> /\ c_got.cursor = Digits(MaxCursor)
    /\ c_ops = 2

\* ===== claims on the rate limiter (RateSpec)
\* C12: N > burst_size acquire calls issued back to back, from a full bucket,
\* take at least (N - burst_size) / requests_per_second in all.
C12_BackToBackTakesLongEnough ==
    (~spaced /\ l_pc = "idle" /\ total_requests > burst_size) =>
        clock >= (total_requests - burst_size) * period

\* C13: in every state of the limiter 0 <= tokens <= burst_size.
C13_TokensWithinBucket == 0 <= tokens /\ tokens <= Capacity

\* Three calls at different times have returned and refills have brought a
\* bucket of two back to one token short of full.
C13_Witness ==
    /\ l_pc = "idle" /\ total_requests >= 3 /\ spaced
    /\ burst_size = 2 /\ tokens = Capacity - OneToken

\* ===== claims on the HTTP client (HttpSpec)
Ended == {"returned", "raised", "failed"}

\* C14: every HTTP attempt of a get() has its own acquire before it, so there
\* are never more attempts than acquisitions, and as many when the call ends.
C14_AcquireBeforeEveryAttempt ==
    /\ attempts <= acquires
    /\ h_pc \in Ended => attempts = acquires

\* A 4xx status other than 429.
IsClientError(r) == r >= 400 /\ r < 500 /\ r # 429

\* The answers of the call that count against retry_attempts: retried
\* statuses and request errors, not 429.
Failures == Cardinality({i \in 1..Len(responses) :
                            Retried(responses[i]) \/ responses[i] = RequestError})

\* C15: a 429 takes none of the retry_attempts slots: a call that got no
\* 4xx other than 429 gives up only after retry_attempts failures that are
\* not 429s.
C15_RateLimitTakesNoSlot ==
    (h_pc \in {"failed", "raised"} /\ \A i \in 1..Len(responses) : ~IsClientError(responses[i]))
        => Failures >= retry_attempts

\* C16: a 4xx answer other than 429 is the call's last answer: the call
\* raises, with no sleep after that answer and no further attempt; when it
\* answers the first attempt there is one attempt and no sleep at all.
C16_ClientErrorNotRetried ==
    \A i \in 1..Len(responses) :
        IsClientError(responses[i]) =>
            /\ i = Len(responses) /\ attempts = i
            /\ h_pc = "raised"
            /\ Len(sleeps) = i - 1

\* The first attempt was answered 404 and the call raised.
C16_Witness ==
    /\ responses = <<404>> /\ h_pc = "raised" /\ attempts = 1 /\ sleeps = <<>>
    /\ retry_attempts = MaxAttempts

AllAre500 == \A i \in 1..Len(responses) : responses[i] = 500

\* C17: no call makes more than retry_attempts HTTP attempts, and a call
\* answered 500 every time ends only as the terminal failure, after exactly
\* retry_attempts attempts.
C17_TerminalAfterAllAttempts ==
    /\ attempts <= retry_attempts
    /\ (AllAre500 /\ h_pc \in Ended) => (h_pc = "failed" /\ attempts = retry_attempts)
    /\ (AllAre500 /\ attempts = retry_attempts) => h_pc \in {"loop", "failed"}

\* Every attempt was answered 500 and the call failed.
C17_Witness ==
    /\ h_pc = "failed" /\ AllAre500 /\ attempts = MaxAttempts
    /\ Len(sleeps) = MaxAttempts

\* ===== claims on the orchestrator (MainSpec)
Raises(s) == behaviour[s] \in {"init_raises", "ingest_raises"}

\* An enabled source reported an error: its adapter raised, or returned a
\* result with a non-empty errors list.
AnySourceError ==
    \E s \in Sources :
        enabled[s] /\ (m_sources[s].kind = "error" \/ m_sources[s].errors > 0)

RunReturned == m_pc = "summary" \/ (m_pc = "exited" /\ exit_status # 130)

\* C18: after a run that was not interrupted the exit status is 0 exactly
\* when no enabled source reported an error, errors recorded in a returned
\* result included.
C18_ExitStatusReflectsErrors ==
    (m_pc = "exited" /\ exit_status # 130) => (exit_status = 0 <=> ~AnySourceError)

\* C19: when run_ingestion has returned, every enabled source has its entry:
\* the error for a source whose adapter raised, the result of ingest() for
\* every other one, whatever the sources before it did.
C19_FailureStopsOnlyThatSource ==
    RunReturned =>
        /\ \A s \in Sources :
            enabled[s] => m_sources[s] = IF Raises(s) THEN ErrorEntry
                                         ELSE SourceResult(behaviour[s])
        /\ m_errors = Cardinality({s \in Sources : enabled[s] /\ Raises(s)})

\* The first two sources raised and the third ran to its end.
C19_Witness ==
    /\ m_pc = "summary" /\ \A s \in Sources : enabled[s]
    /\ behaviour["arxiv"] = "init_raises" /\ behaviour["pubmed"] = "ingest_raises"
    /\ m_sources["openalex"].kind = "result" /\ m_errors = 2

\* ===== claims on the adapters (Spec), continued
\* C20: once write_records or save_checkpoint has raised in a run, the
\* adapter fetches no further page and writes no further batch or checkpoint
\* in that run.
C20_StorageFailureAbortsRun ==
    \A i \in 1..Len(log) :
        log[i][1] \in {"write_failed", "save_failed"} =>
            i = Len(log) /\ nfetch = log[i][2]

\* ===== claims on RetryableHTTPClient.get (HttpSpec), continued
\* The first k answers were 503.
First503(k) == \A i \in 1..k : responses[i] = 503

\* C28: a get() answered 503 exactly k times and then 200, with k below
\* retry_attempts, is still running after the k answers, returns on the
\* success, and has added exactly k to total_retries.
C28_RetriesCounted ==
    \A k \in 0..(retry_attempts - 1) :
        /\ (Len(responses) = k /\ First503(k)) =>
               (h_pc \notin Ended /\ total_retries = k)
        /\ (Len(responses) = k + 1 /\ First503(k) /\ responses[k + 1] = 200) =>
               (h_pc = "returned" /\ total_retries = k /\ attempts = k + 1)

\* Two 503 answers, then the success.
C28_Witness ==
    /\ responses = <<503, 503, 200>> /\ h_pc = "returned" /\ total_retries = 2
    /\ retry_attempts = MaxAttempts

\* C29: total_errors has grown by one when a get() has ended by raising
\* (retries used up, a 4xx that is not retried, a request error on the last
\* attempt) and is unchanged when it has returned.
C29_ErrorsCountEveryRaise ==
    /\ h_pc \in {"raised", "failed"} => total_errors = 1
    /\ h_pc = "returned" => total_errors = 0

\* C30: the sleep after a 429 answer lasts the seconds of its Retry-After
\* header, 60 when the header is absent, whatever the attempt number, and
\* it is the only sleep between that answer and the next attempt.
C30_RateLimitWaitsRetryAfter ==
    /\ Len(sleeps) <= Len(responses) /\ Len(headers) = Len(responses)
    /\ h_pc \in {"loop", "request", "failed"} => Len(sleeps) = Len(responses)
    /\ \A i \in 1..Len(sleeps) :
          responses[i] = 429 =>
              sleeps[i] = IF headers[i] = NoHeader THEN 60
                          ELSE ParseInt(headers[i])

\* A 429 with Retry-After: 12 on the first attempt, one without the header
\* on the second, and the next attempt made.
C30_Witness ==
    /\ responses = <<429, 429, 200>> /\ headers = <<Digits(12), NoHeader, NoHeader>>
    /\ sleeps = <<12, 60>> /\ h_pc = "returned"

\* ===== claims on the adapters (Spec), continued
CeilDiv(a, b) == (a + b - 1) \div b

\* The sum of the records held by the batch files of the source.
RECURSIVE SumRecs(_)
SumRecs(keys) ==
    IF keys = {} THEN 0
    ELSE LET k == CHOOSE x \in keys : TRUE IN files[k].recs + SumRecs(keys \ {k})

\* The first run of pubmed, without a checkpoint, against an upstream that
\* answers every request, holds no more than max_records entries and whose
\* every id yields a record; nothing has failed so far.
CleanPubMedRun ==
    /\ adapter = "pubmed" /\ runs = 0 /\ ~down /\ failures = 0
    /\ total <= max_records /\ bad \cap (0..(total - 1)) = {}

\* C22: such a run, once ingest() has returned, has written exactly total
\* records in ceil(total / batch_size) batches, the last checkpoint it saved
\* has records_processed = total, and no checkpoint is left.
C22_TwoPhaseEndToEnd ==
    (CleanPubMedRun /\ pc = "done") =>
        /\ records_ingested = total /\ SumRecs(DOMAIN files) = total
        /\ batches = CeilDiv(total, batch_size)
        /\ Cardinality(DOMAIN files) = CeilDiv(total, batch_size)
        /\ total > 0 => (pending.records_processed = total /\ ckptOf = batch_id)
        /\ ~ckptFile["pubmed"].exists /\ ~cache["pubmed"].exists

\* Three entries in pages of two: two batches, the second of one record.
C22_Witness ==
    /\ CleanPubMedRun /\ pc = "done" /\ total = 3 /\ batch_size = 2
    /\ batches = 2 /\ records_ingested = 3 /\ pending.records_processed = 3

\* C23: a batch file that is visible at its final path stays there with the
\* content it has, whatever step comes next (of the run, a crash, the next
\* run).
C23_BatchFileNeverReplaced ==
    [][\A k \in DOMAIN files : k \in DOMAIN files' /\ files'[k] = files[k]]_vars

\* C26: a step that deletes the checkpoint of the source is the step after
\* the fetch loop of a run whose errors list is empty.
C26_DeletedOnlyAfterCleanLoop ==
    [][(ckptFile[Source].exists /\ ~ckptFile'[Source].exists)
          => (pc = "finish" /\ pc' = "done" /\ errors = 0)]_vars

\* A checkpoint was saved in the run and the run's end deleted it.
C26_Witness ==
    /\ pc = "done" /\ errors = 0 /\ adapter \in {"pubmed", "openalex"}
    /\ \E i \in 1..Len(log) : log[i][1] = "save"
    /\ ~ckptFile[Source].exists

\* ===== claims on the parsers (ParseSpec)
\* C21: every record passed to write_records has a native id (arxiv_id,
\* pmid, openalex_id) that is neither null nor empty.
C21_WrittenRecordsHaveId ==
    \A i \in 1..Len(e_written) : Truthy(e_written[i])

\* ===== claims on the RateLimiter called by several tasks (TaskSpec)
\* The tasks inside the `async with self._lock` block: a task leaves the
\* block in the step it enters it unless it sleeps there.
InCriticalSection == {t \in Tasks : t_pc[t] = "sleeping"}

\* C27: at most one task is inside the critical section of acquire(), a
\* sleeping task included, and it is the holder of the lock; total_requests
\* is the number of acquire() calls that have returned.
C27_OneTaskInCriticalSection ==
    /\ Cardinality(InCriticalSection) <= 1
    /\ \A t \in Tasks : t \in InCriticalSection <=> lock = t
    /\ total_requests = Cardinality({t \in Tasks : t_pc[t] = "returned"})

\* One task sleeps inside the block while another waits for the lock and a
\* third has returned.
C27_Witness ==
    \E t, u, v \in Tasks :
        t_pc[t] = "sleeping" /\ t_pc[u] = "waiting" /\ t_pc[v] = "returned"

\* ===== claims on two callers of the shared stores (SharedSpec)
\* The write_records call of the caller has returned.
WriteReturned(j) == d_pc[j] \in {"written", "save_rename", "clear", "done"}

\* C24: two write calls with distinct (source, batch_id) have distinct temp
\* paths and distinct final paths, neither's temp path is the other's final
\* path, and once both have returned, whatever the order of their steps, the
\* final file of each holds exactly the records of its own call, closed.
C24_WritesDoNotCollide ==
    /\ \A j, k \in Callers :
          j # k =>
              /\ TempPathOf(d_args[j]) # TempPathOf(d_args[k])
              /\ FilePathOf(d_args[j]) # FilePathOf(d_args[k])
              /\ TempPathOf(d_args[j]) # FilePathOf(d_args[k])
    /\ (\A j \in Callers : WriteReturned(j)) =>
          \A j \in Callers :
              /\ FilePathOf(d_args[j]) \in DOMAIN d_fs
              /\ d_fs[FilePathOf(d_args[j])] = File(LinesOf(d_args[j]), TRUE)

\* Two calls on the same partition have both returned, one having written
\* its records while the other's temp file was open.
C24_Witness ==
    /\ d_args[1].source = d_args[2].source
    /\ Len(d_args[1].records) = MaxK
    /\ d_pc[1] = "written" /\ d_pc[2] = "written"
    /\ Cardinality(DOMAIN d_fs) = 2

\* The caller that took the step.
CallerMoved(j) == d_pc'[j] # d_pc[j] \/ d_i'[j] # d_i[j]

At(f, p) == IF p \in DOMAIN f THEN <<TRUE, f[p]>> ELSE <<FALSE, 0>>

\* The step touched nothing but files of partition s and the checkpoint
\* file, temp file and cache entry of s.
OnlyTouches(s) ==
    /\ \A p \in DOMAIN d_fs \cup DOMAIN d_fs' :
          At(d_fs', p) # At(d_fs, p) => p.source = s
    /\ \A p \in DOMAIN d_cfs \cup DOMAIN d_cfs' :
          At(d_cfs', p) # At(d_cfs, p) => p[1] = s
    /\ \A o \in StorageSources : o # s => d_cache'[o] = d_cache[o]

\* What the run of caller j alone leaves for its source: its batch file,
\* and its checkpoint unless it cleared it.
AsRunAlone(j) ==
    LET a == d_args[j] IN
    /\ {p \in DOMAIN d_fs : p.source = a.source} = {FilePathOf(a)}
    /\ d_fs[FilePathOf(a)] = File(LinesOf(a), TRUE)
    /\ {p \in DOMAIN d_cfs : p[1] = a.source} =
          IF a.clears THEN {} ELSE {CkptPathOf(a)}
    /\ ~a.clears => d_cfs[CkptPathOf(a)] = Encode(CheckpointOf(a))
    /\ d_cache[a.source] = IF a.clears THEN NoCheckpoint ELSE CheckpointOf(a)

\* C25: every step of a caller for source s touches only the files of
\* partition s and the checkpoint of s; and when two callers for different
\* sources have both ended, in whatever order their steps were taken, each
\* source's files and checkpoint are what its caller leaves when run alone.
C25_SourcesAreIsolated ==
    /\ [][\A j \in Callers : CallerMoved(j) => OnlyTouches(d_args[j].source)]_vars
    /\ []((d_args[1].source # d_args[2].source /\ \A j \in Callers : d_pc[j] = "done")
            => \A j \in Callers : AsRunAlone(j))

\* Both callers, for different sources, have ended; one kept its checkpoint
\* and the other cleared it.
C25_Witness ==
    /\ d_args[1].source # d_args[2].source
    /\ d_args[1].clears /\ ~d_args[2].clears
    /\ \A j \in Callers : d_pc[j] = "done"
    /\ Cardinality(DOMAIN d_cfs) = 1 /\ Cardinality(DOMAIN d_fs) = 2

\* ===== claims on RetryableHTTPClient.get (HttpSpec), continued
\* A 5xx status or a connection or timeout error.
ServerSide(r) == r = RequestError \/ (r >= 500 /\ r <= 599)

\* C31: an attempt that ended in a 5xx status or in a request error while
\* attempts remained is followed by a backoff sleep of
\* retry_backoff_factor ** attempt (attempt counted from 0) and by another
\* attempt: the call does not raise on it.
C31_ServerErrorsRetried ==
    \A i \in 1..Len(responses) :
        (ServerSide(responses[i]) /\ i < retry_attempts) =>
            /\ Len(sleeps) >= i /\ sleeps[i] = Power(2, i - 1)
            /\ i = Len(responses) => h_pc \in {"loop", "request"}

\* C40: when a get() has ended, total_retries has grown by at most the
\* number of its HTTP attempts minus one, and it slept at most once
\* between two attempts, never after the last one.
C40_RetriesBelowAttempts ==
    h_pc \in Ended =>
        /\ total_retries <= attempts - 1
        /\ Len(sleeps) <= attempts - 1

\* ===== claims on _get_year_ranges (YearSpec)
RECURSIVE SumSeq(_)
SumSeq(q) == IF q = <<>> THEN 0 ELSE q[1] + SumSeq(Tail(q))

\* No bin's share of max_records is below the minimum of 20.
Unclamped == \A i \in 1..NumBins : g_max_records * Weights[i] >= 20 * 100

\* C32: with four valid bins every target is at least 20; when no target
\* is clamped the targets sum to max_records less at most 3; for
\* max_records = 1000 the targets are 150, 200, 250, 400, oldest first.
C32_YearTargets ==
    g_i = NumBins /\ Len(g_result) = NumBins =>
        /\ \A i \in 1..NumBins : g_result[i] >= 20
        /\ Unclamped => (SumSeq(g_result) <= g_max_records
                         /\ SumSeq(g_result) >= g_max_records - 3)
        /\ g_max_records = 1000 => g_result = <<150, 200, 250, 400>>

\* max_records = 1000, all four bins allocated.
C32_Witness ==
    g_max_records = 1000 /\ g_i = NumBins /\ SumSeq(g_result) = 1000

\* ===== claims on _reconstruct_abstract (AbstractSpec)
\* Every position listed in the index, with the item and the place it is
\* listed at.
Listed ==
    UNION {{<<k, j>> : j \in 1..Len(b_index.items[k].positions)} :
           k \in 1..Len(b_index.items)}
PosOf(x) == b_index.items[x[1]].positions[x[2]]
DistinctPositions == \A x, y \in Listed : x # y => PosOf(x) # PosOf(y)
Rank(x) == Cardinality({y \in Listed : PosOf(y) < PosOf(x)})

\* C33: for a non-empty index with pairwise distinct positions the value
\* returned is a string of one word per listed position, the word listed
\* at the position of rank r in place r, with a single space between two
\* words; an absent or empty index gives None; {"a":[0,2],"b":[1]} gives
\* "a b a".
C33_AbstractReconstructed ==
    b_pc = "returned" =>
        /\ (~b_index.given \/ b_index.items = <<>>) => b_out = None
        /\ (b_index.given /\ b_index.items # <<>> /\ DistinctPositions) =>
              /\ ~b_out.none
              /\ Len(b_out.text) = Max(0, 2 * Cardinality(Listed) - 1)
              /\ \A x \in Listed :
                    b_out.text[2 * Rank(x) + 1] = b_index.items[x[1]].word
              /\ \A i \in 1..Len(b_out.text) : i % 2 = 0 => b_out.text[i] = " "
        /\ b_index = Index(<<[word |-> "a", positions |-> <<0, 2>>],
                             [word |-> "b", positions |-> <<1>>]>>)
              => b_out = Str(<<"a", " ", "b", " ", "a">>)

\* {"a":[0,2],"b":[1]} has been reconstructed.
C33_Witness ==
    /\ b_pc = "returned"
    /\ b_index = Index(<<[word |-> "a", positions |-> <<0, 2>>],
                         [word |-> "b", positions |-> <<1>>]>>)
    /\ b_out = Str(<<"a", " ", "b", " ", "a">>)

\* ===== claims on the requests of the PubMed loop (TwoPhaseSpec)
\* The ids of an id parameter: what stands between its commas.
SplitCommas(param) == [i \in 1..((Len(param) + 1) \div 2) |-> param[2 * i - 1]]

Searches == {i \in 1..Len(requests) : requests[i].kind = "search"}

\* C34: a fetch request directly follows a search that has returned a
\* non-empty id list, and its id parameter is that list in the same order;
\* a search that returned ids is followed by exactly one fetch and by no
\* second search before it; after a search that returned no id, or that
\* raised, no fetch follows; each iteration begun has issued at most one
\* search.
C34_FetchFollowsItsSearch ==
    /\ \A i \in 1..Len(requests) :
          requests[i].kind = "fetch" =>
              /\ i > 1 /\ requests[i - 1].kind = "search"
              /\ requests[i - 1].state = "returned" /\ requests[i - 1].ids # <<>>
              /\ SplitCommas(requests[i].ids) = requests[i - 1].ids
    /\ \A i \in Searches :
          /\ (requests[i].state = "returned" /\ requests[i].ids # <<>> /\ i < Len(requests))
                => requests[i + 1].kind = "fetch"
          /\ (requests[i].state = "returned" /\ requests[i].ids = <<>>) => i = Len(requests)
          /\ (requests[i].state = "pending") => i = Len(requests)
    /\ Cardinality(Searches) <= q_iter
    /\ q_pc \in {"loop", "done"} /\ q_iter > 0 => Cardinality(Searches) = q_iter

\* The second iteration fetched the two ids its search returned.
C34_Witness ==
    /\ Len(requests) = 4 /\ q_pc = "loop"
    /\ requests[3] = Request("search", <<"31452105", "31452104">>, "returned")
    /\ requests[4] = Request("fetch", <<"31452105", ",", "31452104">>, "returned")

\* ---------------------------------------------------------------------
\* C35: when a page request fails terminally inside an adapter's loop the
\* handler appends exactly one entry to errors, moves the cursor past the
\* failing page (offset + batch_size for the Feed and TwoPhase adapters,
\* page + 1 for the PagedJson adapter) and returns to the loop; the cursor
\* values requested within one run (one sub-query for the Feed adapter)
\* are strictly increasing.
Handled ==
    /\ pc = "except" /\ pc' = "loop" /\ runs' = runs /\ ~down

C35_FailedPageSkipped ==
    /\ [][Handled => /\ errors' = errors + 1
                     /\ IF adapter = "openalex"
                        THEN page' = page + 1 /\ offset' = offset
                        ELSE offset' = offset + batch_size /\ page' = page]_vars
    /\ [](\A i, j \in 1..Len(cursors) : i < j => cursors[i] < cursors[j])

\* A run in which a page request failed, was handled, and the next page
\* was requested past it.
C35_Witness ==
    /\ ~down /\ errors = 1 /\ log = <<>> /\ Len(cursors) = 2
    /\ cursors[2] = cursors[1] + (IF adapter = "openalex" THEN 1 ELSE batch_size)

\* ---------------------------------------------------------------------
\* C36: after a run resumes from a checkpoint with records_processed = n,
\* every checkpoint it saves has records_processed >= n.
C36_ProcessedNeverDrops ==
    (/\ start_ckpt.exists /\ pending.exists
     /\ ckptFile[Source] = pending)
        => pending.records_processed >= start_ckpt.records_processed

\* ---------------------------------------------------------------------
\* C37: in an error-free PagedJson run the position ranges requested are
\* contiguous and pairwise disjoint from the start page on: the range of
\* each written page starts where the range of the page before it ends.
PageFile(p) == FileKey("openalex", <<"page", p>>)

ErrorFree ==
    /\ ~down /\ failures = 0 /\ runs = 0 /\ errors = 0 /\ bad = {}

C37_PagesContiguous ==
    (adapter = "openalex" /\ ErrorFree) =>
        \A p \in 2..(MaxTotal + 1) :
            (PageFile(p) \in DOMAIN files /\ PageFile(p - 1) \in DOMAIN files) =>
                files[PageFile(p)].first =
                    files[PageFile(p - 1)].first + files[PageFile(p - 1)].len

\* ---------------------------------------------------------------------
\* C38, every call: within a single run no two write() calls use the same
\* batch_id, whether the call returned or raised.
WriteCalls == {i \in 1..Len(log) : log[i][1] \in {"write", "write_failed"}}

Written == {i \in 1..Len(log) : log[i][1] = "write"}

C39_CacheAgreesWithDisk ==
    c_pc = "idle" =>
        /\ \A s \in CkptSources :
               c_cache[s].exists =>
                   /\ GetCheckpointPath(s) \in DOMAIN c_fs
                   /\ c_cache[s] = Decode(c_fs[GetCheckpointPath(s)])
        /\ c_got.exists => c_got = FreshGet(c_got.source)

\* A save that succeeded, a save of another value for the same source that
\* raised, and a get_checkpoint answered from the cache.
C39_Witness ==
    /\ c_pc = "idle" /\ c_ops = MaxOps
    /\ c_cache["arxiv"].exists /\ c_got = c_cache["arxiv"]
    /\ c_args.exists /\ c_args.source = "arxiv" /\ c_args # c_cache["arxiv"]

====
